---- MODULE Spec2Model ----
(***************************************************************************)
(* Model of the speech-stream pipeline of kokoro-openai-server:            *)
(*   - the stream orchestrator (streaming.rs: create_pcm_stream,           *)
(*     create_wav_stream), one producer task and one consumer per stream,  *)
(*     joined by a bounded mpsc channel;                                   *)
(*   - the admission gate and the engine call (backend.rs: synthesize);    *)
(*   - the non-streaming request path (api.rs: speech_handler);            *)
(*   - the text segmenter (streaming.rs: chunk_text and its helpers).      *)
(***************************************************************************)
EXTENDS Integers, Sequences, FiniteSets, TLC

(***************************************************************************)
(* Program constants.                                                      *)
(***************************************************************************)
STREAM_CHANNEL_CAPACITY == 8

(***************************************************************************)
(* Bounds of the model.                                                    *)
(***************************************************************************)
NumRequests == 1
MaxWorkers == 2
LongChunks == 9
LiveStreams == 2
LiveChunks == 1
ShortWords == 3
LongWords == 14
DeepWords == 40
SampleBits == 10
MaxSamples == 3
MaxChannels == 2
MaxInputChars == 2
MaxChunkSamples == 2
MaxStreamChunks == 2

(***************************************************************************)
(* Option<usize>: None is the empty sequence, Some(v) is <<v>>.            *)
(***************************************************************************)
None == <<>>
Some(v) == <<v>>

(***************************************************************************)
(* Frames carried by the channel: Result<Bytes, io::Error>.  An audio      *)
(* frame is identified by the chunk whose samples it encodes.              *)
(***************************************************************************)
HeaderFrame == [kind |-> "header", chunk |-> -1]
AudioFrame(i) == [kind |-> "audio", chunk |-> i]
ErrorFrame == [kind |-> "error", chunk |-> -1]

(***************************************************************************)
(* Outcomes of one engine call inside spawn_blocking: the samples, an      *)
(* engine error, or a panic of the blocking task (a JoinError).            *)
(***************************************************************************)
Outcomes == {"ok", "err", "panic"}

VARIABLES
    workers,    \* config.workers, the semaphore's initial permits
    permits,    \* permits available in the semaphore
    running,    \* engine calls (blocking tasks) executing now
    framing,    \* per stream: "pcm" or "wav"
    nchunks,    \* per stream: chunks.len()
    silence,    \* per stream: the request's initial_silence
    ppc,        \* per stream: position of the producer task
    idx,        \* per stream: the producer's loop index
    chan,       \* per stream: frames buffered in the channel
    cons,       \* per stream: the consumer: "open", "gone" (rx dropped), "eos"
    received,   \* per stream: frames the consumer has taken, in order
    accepted,   \* per stream: frames the channel has accepted, in order
    calls,      \* per stream: engine calls started, in order
    failed,     \* per stream: None, or Some(k) once the call for chunk k failed
    gonecalls,  \* per stream: engine calls started after the consumer went away
    rpc,        \* per non-streaming request: position of the handler
    resp,       \* per non-streaming request: what the client got
    text,       \* the segmenter's input text, a sequence of characters
    segpc,      \* "input" before chunk_text has run, "done" after
    chunks,     \* the chunk list chunk_text returned
    encin,      \* the encoder's input: a sample, a sample list or header fields
    encpc,      \* "input" before the encoder has run, "done" after
    encout,     \* what the encoder returned
    req,        \* the SpeechRequest the speech handler was given
    hpc,        \* position of the speech handler
    engine,     \* engine calls made for the request, with their results
    response    \* the HTTP response the handler returned

vars == <<workers, permits, running, framing, nchunks, silence, ppc, idx, chan,
          cons, received, accepted, calls, failed, gonecalls, rpc, resp,
          text, segpc, chunks, encin, encpc, encout, req, hpc, engine, response>>

(***************************************************************************)
(* The streams and the non-streaming requests of a run.                    *)
(***************************************************************************)
Streams == DOMAIN ppc
Requests == DOMAIN rpc

segVars == <<text, segpc, chunks>>

encVars == <<encin, encpc, encout>>

apiVars == <<req, hpc, engine, response>>

streamCfg == <<framing, nchunks, silence, workers, segVars, encVars, apiVars>>

(***************************************************************************)
(* An engine call in flight: who started it and with what arguments.       *)
(***************************************************************************)
StreamTask(s, i, sil) == [owner |-> "stream", id |-> s, chunk |-> i, silence |-> sil]
RequestTask(r) == [owner |-> "request", id |-> r, chunk |-> 0, silence |-> None]

(***************************************************************************)
(* create_pcm_stream / create_wav_stream: the producer task starts at the  *)
(* header send (WAV) or at the first loop iteration (PCM); an empty chunk  *)
(* list ends the PCM task at once.                                         *)
(***************************************************************************)
LoopEntry(n, i) == IF i < n THEN "acquire" ELSE "done"

ProducerEntryAlwaysHeader(f, n) == "header"

ProducerEntry(f, n) == IF f = "wav" THEN "header" ELSE LoopEntry(n, 0)

StreamInit(S, R, W, chunkChoice, silenceChoice) ==
    /\ workers \in W
    /\ permits = workers
    /\ running = {}
    /\ framing \in [S -> {"pcm", "wav"}]
    /\ nchunks \in [S -> chunkChoice]
    /\ silence \in [S -> silenceChoice]
    /\ ppc = [s \in S |-> ProducerEntry(framing[s], nchunks[s])]
    /\ idx = [s \in S |-> 0]
    /\ chan = [s \in S |-> <<>>]
    /\ cons = [s \in S |-> "open"]
    /\ received = [s \in S |-> <<>>]
    /\ accepted = [s \in S |-> <<>>]
    /\ calls = [s \in S |-> <<>>]
    /\ failed = [s \in S |-> None]
    /\ gonecalls = [s \in S |-> 0]
    /\ rpc = [r \in R |-> "idle"]
    /\ resp = [r \in R |-> "none"]
    /\ text = <<>>
    /\ segpc = "done"
    /\ chunks = <<>>
    /\ encin = <<>>
    /\ encpc = "done"
    /\ encout = <<>>
    /\ req = <<>>
    /\ hpc = "done"
    /\ engine = <<>>
    /\ response = <<>>

(***************************************************************************)
(* tx.send(frame).await on the bounded channel: the frame is accepted      *)
(* when the receiver is alive and fewer than STREAM_CHANNEL_CAPACITY       *)
(* frames are buffered; with the receiver dropped the send fails; with     *)
(* the channel full and the receiver alive the sender stays suspended.     *)
(***************************************************************************)
SendFails(s) == cons[s] = "gone"

SendAcceptsUnbounded(s) == cons[s] # "gone"

SendAccepts(s) == cons[s] # "gone" /\ Len(chan[s]) < STREAM_CHANNEL_CAPACITY

Enqueue(s, frame) ==
    /\ chan' = [chan EXCEPT ![s] = Append(@, frame)]
    /\ accepted' = [accepted EXCEPT ![s] = Append(@, frame)]

(***************************************************************************)
(* create_wav_stream, lines 123-129: the header send before the loop.      *)
(***************************************************************************)
SendHeaderIgnoresClosed(s) ==
    /\ ppc[s] = "header"
    /\ \/ /\ SendFails(s)
          /\ UNCHANGED <<chan, accepted>>
       \/ /\ SendAccepts(s)
          /\ Enqueue(s, HeaderFrame)
    /\ ppc' = [ppc EXCEPT ![s] = LoopEntry(nchunks[s], 0)]
    /\ UNCHANGED <<streamCfg, permits, running, idx, cons, received, calls,
                   failed, rpc, resp, gonecalls>>

SendHeader(s) ==
    /\ ppc[s] = "header"
    /\ \/ /\ SendFails(s)
          /\ ppc' = [ppc EXCEPT ![s] = "done"]
          /\ UNCHANGED <<chan, accepted>>
       \/ /\ SendAccepts(s)
          /\ Enqueue(s, HeaderFrame)
          /\ ppc' = [ppc EXCEPT ![s] = LoopEntry(nchunks[s], 0)]
    /\ UNCHANGED <<streamCfg, permits, running, idx, cons, received, calls,
                   failed, rpc, resp, gonecalls>>

(***************************************************************************)
(* The loop body up to the engine call: chunk_silence, then synthesize     *)
(* acquires a permit and starts the blocking engine call.                  *)
(***************************************************************************)
ChunkSilenceEveryChunk(s, i) == silence[s]

ChunkSilence(s, i) == IF i = 0 THEN silence[s] ELSE None

Synthesize(s) ==
    /\ ppc[s] = "acquire"
    /\ permits > 0
    /\ permits' = permits - 1
    /\ running' = running \cup {StreamTask(s, idx[s], ChunkSilence(s, idx[s]))}
    /\ calls' = [calls EXCEPT ![s] =
                    Append(@, [chunk |-> idx[s], silence |-> ChunkSilence(s, idx[s])])]
    /\ gonecalls' = [gonecalls EXCEPT ![s] = IF cons[s] = "gone" THEN @ + 1 ELSE @]
    /\ ppc' = [ppc EXCEPT ![s] = "engine"]
    /\ UNCHANGED <<streamCfg, idx, chan, cons, received, accepted, failed, rpc, resp>>

(***************************************************************************)
(* The engine call returns to the producer: the blocking task ends, the    *)
(* permit is dropped as synthesize returns, and the match picks the arm.   *)
(***************************************************************************)
SynthesizeReturnsLeaksPermit(s, outcome) ==
    /\ ppc[s] = "engine"
    /\ running' = running \ {StreamTask(s, idx[s], ChunkSilence(s, idx[s]))}
    /\ IF outcome = "ok"
       THEN /\ ppc' = [ppc EXCEPT ![s] = "send"]
            /\ permits' = permits + 1
            /\ UNCHANGED failed
       ELSE /\ ppc' = [ppc EXCEPT ![s] = "senderr"]
            /\ permits' = permits
            /\ failed' = [failed EXCEPT ![s] = IF @ = None THEN Some(idx[s]) ELSE @]
    /\ UNCHANGED <<streamCfg, idx, chan, cons, received, accepted, calls, rpc, resp, gonecalls>>

SynthesizeReturns(s, outcome) ==
    /\ ppc[s] = "engine"
    /\ running' = running \ {StreamTask(s, idx[s], ChunkSilence(s, idx[s]))}
    /\ permits' = permits + 1
    /\ IF outcome = "ok"
       THEN /\ ppc' = [ppc EXCEPT ![s] = "send"]
            /\ UNCHANGED failed
       ELSE /\ ppc' = [ppc EXCEPT ![s] = "senderr"]
            /\ failed' = [failed EXCEPT ![s] = IF @ = None THEN Some(idx[s]) ELSE @]
    /\ UNCHANGED <<streamCfg, idx, chan, cons, received, accepted, calls, rpc, resp, gonecalls>>

(***************************************************************************)
(* The Ok arm: send the chunk's PCM frame; on a failed send break, else    *)
(* go on to the next loop iteration.                                       *)
(***************************************************************************)
SendFrameTrySend(s) ==
    /\ ppc[s] = "send"
    /\ \/ /\ SendFails(s)
          /\ ppc' = [ppc EXCEPT ![s] = "done"]
          /\ UNCHANGED <<chan, accepted, idx>>
       \/ /\ SendAccepts(s)
          /\ Enqueue(s, AudioFrame(idx[s]))
          /\ idx' = [idx EXCEPT ![s] = @ + 1]
          /\ ppc' = [ppc EXCEPT ![s] = LoopEntry(nchunks[s], idx[s] + 1)]
       \/ /\ ~SendFails(s)
          /\ ~SendAccepts(s)
          /\ UNCHANGED <<chan, accepted>>
          /\ idx' = [idx EXCEPT ![s] = @ + 1]
          /\ ppc' = [ppc EXCEPT ![s] = LoopEntry(nchunks[s], idx[s] + 1)]
    /\ UNCHANGED <<streamCfg, permits, running, cons, received, calls, failed,
                   rpc, resp, gonecalls>>

SendFrameIgnoresClosed(s) ==
    /\ ppc[s] = "send"
    /\ \/ /\ SendFails(s)
          /\ UNCHANGED <<chan, accepted>>
       \/ /\ SendAccepts(s)
          /\ Enqueue(s, AudioFrame(idx[s]))
    /\ idx' = [idx EXCEPT ![s] = @ + 1]
    /\ ppc' = [ppc EXCEPT ![s] = LoopEntry(nchunks[s], idx[s] + 1)]
    /\ UNCHANGED <<streamCfg, permits, running, cons, received, calls, failed,
                   rpc, resp, gonecalls>>

SendFrame(s) ==
    /\ ppc[s] = "send"
    /\ \/ /\ SendFails(s)
          /\ ppc' = [ppc EXCEPT ![s] = "done"]
          /\ UNCHANGED <<chan, accepted, idx>>
       \/ /\ SendAccepts(s)
          /\ Enqueue(s, AudioFrame(idx[s]))
          /\ idx' = [idx EXCEPT ![s] = @ + 1]
          /\ ppc' = [ppc EXCEPT ![s] = LoopEntry(nchunks[s], idx[s] + 1)]
    /\ UNCHANGED <<streamCfg, permits, running, cons, received, calls, failed,
                   rpc, resp, gonecalls>>

(***************************************************************************)
(* The Err arm: send one error frame, ignore the send's result, break.     *)
(***************************************************************************)
SendErrorContinues(s) ==
    /\ ppc[s] = "senderr"
    /\ \/ /\ SendFails(s)
          /\ UNCHANGED <<chan, accepted>>
       \/ /\ SendAccepts(s)
          /\ Enqueue(s, ErrorFrame)
    /\ idx' = [idx EXCEPT ![s] = @ + 1]
    /\ ppc' = [ppc EXCEPT ![s] = LoopEntry(nchunks[s], idx[s] + 1)]
    /\ UNCHANGED <<streamCfg, permits, running, cons, received, calls,
                   failed, rpc, resp, gonecalls>>

SendError(s) ==
    /\ ppc[s] = "senderr"
    /\ \/ /\ SendFails(s)
          /\ UNCHANGED <<chan, accepted>>
       \/ /\ SendAccepts(s)
          /\ Enqueue(s, ErrorFrame)
    /\ ppc' = [ppc EXCEPT ![s] = "done"]
    /\ UNCHANGED <<streamCfg, permits, running, idx, cons, received, calls,
                   failed, rpc, resp, gonecalls>>

(***************************************************************************)
(* The consumer: rx.recv().await yields the next buffered frame, or None   *)
(* once the channel is empty and the producer task has dropped tx.         *)
(***************************************************************************)
Recv(s) ==
    /\ cons[s] = "open"
    /\ \/ /\ chan[s] # <<>>
          /\ received' = [received EXCEPT ![s] = Append(@, Head(chan[s]))]
          /\ chan' = [chan EXCEPT ![s] = Tail(@)]
          /\ UNCHANGED cons
       \/ /\ chan[s] = <<>>
          /\ ppc[s] = "done"
          /\ cons' = [cons EXCEPT ![s] = "eos"]
          /\ UNCHANGED <<chan, received>>
    /\ UNCHANGED <<streamCfg, permits, running, ppc, idx, accepted, calls,
                   failed, rpc, resp, gonecalls>>

(***************************************************************************)
(* The consumer goes away: the body stream is dropped, which drops rx and  *)
(* whatever the channel still buffers.                                     *)
(***************************************************************************)
ConsumerDrop(s) ==
    /\ cons[s] = "open"
    /\ cons' = [cons EXCEPT ![s] = "gone"]
    /\ chan' = [chan EXCEPT ![s] = <<>>]
    /\ UNCHANGED <<streamCfg, permits, running, ppc, idx, received, accepted,
                   calls, failed, rpc, resp, gonecalls>>

(***************************************************************************)
(* speech_handler, non-streaming branch: one synthesize call for the whole *)
(* input, awaited inside the handler's future.                             *)
(***************************************************************************)
RequestStart(r) ==
    /\ rpc[r] = "idle"
    /\ rpc' = [rpc EXCEPT ![r] = "acquire"]
    /\ UNCHANGED <<streamCfg, permits, running, ppc, idx, chan, cons, received,
                   accepted, calls, failed, resp, gonecalls>>

RequestSynthesize(r) ==
    /\ rpc[r] = "acquire"
    /\ permits > 0
    /\ permits' = permits - 1
    /\ running' = running \cup {RequestTask(r)}
    /\ rpc' = [rpc EXCEPT ![r] = "engine"]
    /\ UNCHANGED <<streamCfg, ppc, idx, chan, cons, received, accepted, calls,
                   failed, resp, gonecalls>>

RequestReturnsKeepsPermitOnPanic(r, outcome) ==
    /\ rpc[r] = "engine"
    /\ running' = running \ {RequestTask(r)}
    /\ permits' = IF outcome = "panic" THEN permits ELSE permits + 1
    /\ rpc' = [rpc EXCEPT ![r] = "done"]
    /\ resp' = [resp EXCEPT ![r] = IF outcome = "ok" THEN "audio" ELSE "backend_error"]
    /\ UNCHANGED <<streamCfg, ppc, idx, chan, cons, received, accepted, calls, failed, gonecalls>>

RequestReturns(r, outcome) ==
    /\ rpc[r] = "engine"
    /\ running' = running \ {RequestTask(r)}
    /\ permits' = permits + 1
    /\ rpc' = [rpc EXCEPT ![r] = "done"]
    /\ resp' = [resp EXCEPT ![r] = IF outcome = "ok" THEN "audio" ELSE "backend_error"]
    /\ UNCHANGED <<streamCfg, ppc, idx, chan, cons, received, accepted, calls, failed, gonecalls>>

(***************************************************************************)
(* The caller abandons a non-streaming request: the handler's future is    *)
(* dropped at its await point.  Dropped while waiting for a permit, it     *)
(* leaves the semaphore's queue.  Dropped while the engine call is in      *)
(* flight, the future's _permit is released at once, the JoinHandle is     *)
(* detached, and the blocking task runs on to its end.                     *)
(***************************************************************************)
RequestAbandon(r) ==
    /\ rpc[r] \in {"acquire", "engine"}
    /\ permits' = IF rpc[r] = "engine" THEN permits + 1 ELSE permits
    /\ rpc' = [rpc EXCEPT ![r] = "abandoned"]
    /\ UNCHANGED <<streamCfg, running, ppc, idx, chan, cons, received, accepted,
                   calls, failed, resp, gonecalls>>

DetachedTaskEnds(r) ==
    /\ rpc[r] = "abandoned"
    /\ RequestTask(r) \in running
    /\ running' = running \ {RequestTask(r)}
    /\ UNCHANGED <<streamCfg, permits, ppc, idx, chan, cons, received, accepted,
                   calls, failed, rpc, resp, gonecalls>>

Next ==
    \/ \E s \in Streams : SendHeader(s)
    \/ \E s \in Streams : Synthesize(s)
    \/ \E s \in Streams, outcome \in Outcomes : SynthesizeReturns(s, outcome)
    \/ \E s \in Streams : SendFrame(s)
    \/ \E s \in Streams : SendError(s)
    \/ \E s \in Streams : Recv(s)
    \/ \E s \in Streams : ConsumerDrop(s)
    \/ \E r \in Requests : RequestStart(r)
    \/ \E r \in Requests : RequestSynthesize(r)
    \/ \E r \in Requests, outcome \in Outcomes : RequestReturns(r, outcome)
    \/ \E r \in Requests : RequestAbandon(r)
    \/ \E r \in Requests : DetachedTaskEnds(r)

(***************************************************************************)
(* Spec: one stream of up to LongChunks chunks (enough to fill the         *)
(* channel and suspend the producer) beside NumRequests non-streaming      *)
(* requests, all sharing the admission gate.                               *)
(***************************************************************************)
\* Config::validate on the worker count: the server starts only with a
\* configuration it accepts.
MAX_WORKERS == 8

validate(config_workers) == ~(config_workers = 0 \/ config_workers > MAX_WORKERS)

WorkerChoices == {w \in 0..MaxWorkers \cup {MAX_WORKERS + 1} : validate(w)}

Init == StreamInit({1}, 1..NumRequests, WorkerChoices, 0..LongChunks, {None, Some(1)})

Spec == Init /\ [][Next]_vars

(***************************************************************************)
(* The text segmenter.  A Rust string is a sequence of characters, each a  *)
(* one-character string; a word is a maximal run of non-whitespace.        *)
(***************************************************************************)
WORDS_PER_CHUNK == 10
SPLIT_THRESHOLD == 12
MAX_SPLIT_DEPTH == 3
MIN_SPLIT_POS == 3

WhiteSpace == {" ", "\n", "\t"}

AsciiDigits == {"0", "1", "2", "3", "4", "5", "6", "7", "8", "9"}

UpperCase == <<"A", "B", "C", "D", "E", "F", "G", "H", "I", "J", "K", "L", "M",
               "N", "O", "P", "Q", "R", "S", "T", "U", "V", "W", "X", "Y", "Z">>

LowerCase == <<"a", "b", "c", "d", "e", "f", "g", "h", "i", "j", "k", "l", "m",
               "n", "o", "p", "q", "r", "s", "t", "u", "v", "w", "x", "y", "z">>

BREAK_WORDS ==
    { <<"a", "n", "d">>, <<"o", "r">>, <<"b", "u", "t">>, <<"&">>,
      <<"b", "e", "c", "a", "u", "s", "e">>, <<"i", "f">>,
      <<"s", "i", "n", "c", "e">>, <<"t", "h", "o", "u", "g", "h">>,
      <<"a", "l", "t", "h", "o", "u", "g", "h">>,
      <<"h", "o", "w", "e", "v", "e", "r">>, <<"w", "h", "i", "c", "h">> }

\* str::split_whitespace: the maximal runs of non-whitespace, left to right
WordStarts(str) ==
    {i \in 1..Len(str) :
        str[i] \notin WhiteSpace /\ (i = 1 \/ str[i - 1] \in WhiteSpace)}

WordEnd(str, i) ==
    CHOOSE j \in i..Len(str) :
        /\ \A x \in i..j : str[x] \notin WhiteSpace
        /\ (j = Len(str) \/ str[j + 1] \in WhiteSpace)

split_whitespace(str) ==
    LET starts == WordStarts(str)
        StartOf(k) == CHOOSE i \in starts :
                          Cardinality({x \in starts : x < i}) = k - 1
    IN  [k \in 1..Cardinality(starts) |->
            SubSeq(str, StartOf(k), WordEnd(str, StartOf(k)))]

\* str::trim: from the first to the last non-whitespace character
trim(str) ==
    LET kept == {i \in 1..Len(str) : str[i] \notin WhiteSpace}
    IN  IF kept = {} THEN <<>>
        ELSE SubSeq(str, CHOOSE i \in kept : \A x \in kept : i <= x,
                         CHOOSE i \in kept : \A x \in kept : x <= i)

\* str::ends_with for a one-character pattern
ends_with(word, c) == word # <<>> /\ word[Len(word)] = c

\* str::to_lowercase on the letters of the model's alphabet
LowerOf(c) ==
    IF \E k \in 1..Len(UpperCase) : UpperCase[k] = c
    THEN LowerCase[CHOOSE k \in 1..Len(UpperCase) : UpperCase[k] = c]
    ELSE c

to_lowercase(word) == [k \in 1..Len(word) |-> LowerOf(word[k])]

\* [&str]::join
RECURSIVE join(_, _)
join(words, sep) ==
    IF words = <<>> THEN <<>>
    ELSE IF Len(words) = 1 THEN words[1]
    ELSE LET half == Len(words) \div 2
         IN  join(SubSeq(words, 1, half), sep) \o sep
                 \o join(SubSeq(words, half + 1, Len(words)), sep)

(***************************************************************************)
(* is_numbered_list_item: the regex ^\(?[0-9]+[.\):],?$ .                  *)
(***************************************************************************)
RECURSIVE DigitsEnd(_, _)
DigitsEnd(word, i) ==
    IF i <= Len(word) /\ word[i] \in AsciiDigits THEN DigitsEnd(word, i + 1) ELSE i

is_numbered_list_item(word) ==
    LET a == IF word # <<>> /\ word[1] = "(" THEN 2 ELSE 1
        b == DigitsEnd(word, a)
    IN  /\ b > a
        /\ b <= Len(word)
        /\ word[b] \in {".", ")", ":"}
        /\ \/ b = Len(word)
           \/ b + 1 = Len(word) /\ word[b + 1] = ","

(***************************************************************************)
(* find_closest_punctuation and find_closest_break_word: a left-to-right   *)
(* scan keeping the first position at the least distance from center.      *)
(* min_distance starts at usize::MAX, above every distance: None here.     *)
(***************************************************************************)
Distance(i, center) == IF i < center THEN center - i ELSE i - center

\* The state of a scan: closest_pos and min_distance (a usize)
ScanState(closest_pos, min_distance) ==
    [closest_pos |-> closest_pos, min_distance |-> min_distance]

PunctuationStep(words, center, punctuation, i, st) ==
    IF /\ \E p \in punctuation : ends_with(words[i + 1], p)
       /\ (st.min_distance = None \/ Distance(i, center) < st.min_distance[1])
    THEN ScanState(Some(i + 1), Some(Distance(i, center)))
    ELSE st

\* for (i, word) in words.iter().enumerate(), i from first to last in
\* order.  The run is cut in halves, the state after the first half being
\* computed before the second half starts.
RECURSIVE PunctuationScan(_, _, _, _, _, _)
PunctuationScan(words, center, punctuation, first, last, st) ==
    IF first > last THEN st
    ELSE IF first = last THEN PunctuationStep(words, center, punctuation, first, st)
    ELSE LET mid == (first + last) \div 2
             left == PunctuationScan(words, center, punctuation, first, mid, st)
         IN  IF left.min_distance = None \/ left.min_distance[1] >= 0
             THEN PunctuationScan(words, center, punctuation, mid + 1, last, left)
             ELSE left

find_closest_punctuation(words, center, punctuation) ==
    PunctuationScan(words, center, punctuation, 0, Len(words) - 1,
                    ScanState(None, None)).closest_pos

BreakWordStep(words, center, break_words, i, st) ==
    IF /\ to_lowercase(words[i + 1]) \in break_words
       /\ (st.min_distance = None \/ Distance(i, center) < st.min_distance[1])
    THEN ScanState(Some(i), Some(Distance(i, center)))
    ELSE st

RECURSIVE BreakWordScan(_, _, _, _, _, _)
BreakWordScan(words, center, break_words, first, last, st) ==
    IF first > last THEN st
    ELSE IF first = last THEN BreakWordStep(words, center, break_words, first, st)
    ELSE LET mid == (first + last) \div 2
             left == BreakWordScan(words, center, break_words, first, mid, st)
         IN  IF left.min_distance = None \/ left.min_distance[1] >= 0
             THEN BreakWordScan(words, center, break_words, mid + 1, last, left)
             ELSE left

find_closest_break_word(words, center, break_words) ==
    BreakWordScan(words, center, break_words, 0, Len(words) - 1,
                  ScanState(None, None)).closest_pos

(***************************************************************************)
(* split_long_chunk_with_depth (Pass 2).                                   *)
(***************************************************************************)
QualifyingSplit(pos, words) ==
    pos # None /\ pos[1] >= MIN_SPLIT_POS /\ pos[1] < Len(words)

split_long_chunk_one_level(chunk, threshold, use_punctuation, depth) ==
    LET words == split_whitespace(chunk)
        center == Len(words) \div 2
        comma_pos == find_closest_punctuation(words, center, {","})
        break_pos == find_closest_break_word(words, center, BREAK_WORDS)
        SplitAt(pos) == << join(SubSeq(words, 1, pos), <<" ">>),
                           join(SubSeq(words, pos + 1, Len(words)), <<" ">>) >>
    IN  IF depth >= 1 \/ Len(words) < threshold THEN <<chunk>>
        ELSE IF use_punctuation /\ QualifyingSplit(comma_pos, words)
             THEN SplitAt(comma_pos[1])
        ELSE IF QualifyingSplit(break_pos, words)
             THEN SplitAt(break_pos[1])
        ELSE <<chunk>>

RECURSIVE split_long_chunk_deeper(_, _, _, _)
split_long_chunk_deeper(chunk, threshold, use_punctuation, depth) ==
    IF depth >= MAX_SPLIT_DEPTH + 1 THEN <<chunk>>
    ELSE
    LET words == split_whitespace(chunk)
        center == Len(words) \div 2
        comma_pos == find_closest_punctuation(words, center, {","})
        break_pos == find_closest_break_word(words, center, BREAK_WORDS)
        SplitAt(pos) ==
            split_long_chunk_deeper(join(SubSeq(words, 1, pos), <<" ">>),
                                    threshold, use_punctuation, depth + 1)
            \o
            split_long_chunk_deeper(join(SubSeq(words, pos + 1, Len(words)), <<" ">>),
                                    threshold, use_punctuation, depth + 1)
    IN  IF Len(words) < threshold THEN <<chunk>>
        ELSE IF use_punctuation /\ QualifyingSplit(comma_pos, words)
             THEN SplitAt(comma_pos[1])
        ELSE IF QualifyingSplit(break_pos, words)
             THEN SplitAt(break_pos[1])
        ELSE <<chunk>>

RECURSIVE split_long_chunk_below_threshold(_, _, _, _)
split_long_chunk_below_threshold(chunk, threshold, use_punctuation, depth) ==
    IF depth >= MAX_SPLIT_DEPTH THEN <<chunk>>
    ELSE
    LET words == split_whitespace(chunk)
        center == Len(words) \div 2
        comma_pos == find_closest_punctuation(words, center, {","})
        break_pos == find_closest_break_word(words, center, BREAK_WORDS)
        SplitAt(pos) ==
            split_long_chunk_below_threshold(join(SubSeq(words, 1, pos), <<" ">>),
                                             threshold, use_punctuation, depth + 1)
            \o
            split_long_chunk_below_threshold(join(SubSeq(words, pos + 1, Len(words)), <<" ">>),
                                             threshold, use_punctuation, depth + 1)
    IN  IF Len(words) + 1 < threshold THEN <<chunk>>
        ELSE IF use_punctuation /\ QualifyingSplit(comma_pos, words)
             THEN SplitAt(comma_pos[1])
        ELSE IF QualifyingSplit(break_pos, words)
             THEN SplitAt(break_pos[1])
        ELSE <<chunk>>

RECURSIVE split_long_chunk_with_depth(_, _, _, _)
split_long_chunk_with_depth(chunk, threshold, use_punctuation, depth) ==
    IF depth >= MAX_SPLIT_DEPTH THEN <<chunk>>
    ELSE
    LET words == split_whitespace(chunk)
        center == Len(words) \div 2
        comma_pos == find_closest_punctuation(words, center, {","})
        break_pos == find_closest_break_word(words, center, BREAK_WORDS)
        SplitAt(pos) ==
            split_long_chunk_with_depth(join(SubSeq(words, 1, pos), <<" ">>),
                                        threshold, use_punctuation, depth + 1)
            \o
            split_long_chunk_with_depth(join(SubSeq(words, pos + 1, Len(words)), <<" ">>),
                                        threshold, use_punctuation, depth + 1)
    IN  IF Len(words) < threshold THEN <<chunk>>
        ELSE IF use_punctuation /\ QualifyingSplit(comma_pos, words)
             THEN SplitAt(comma_pos[1])
        ELSE IF QualifyingSplit(break_pos, words)
             THEN SplitAt(break_pos[1])
        ELSE <<chunk>>

(***************************************************************************)
(* split_text_into_speech_chunks, Pass 1: one step of the word loop on     *)
(* the state (chunks, current_chunk, word_count).                          *)
(***************************************************************************)
PushTrimmed(list, str) == IF trim(str) # <<>> THEN Append(list, trim(str)) ELSE list

EndsUnconditionalNoBang(word) ==
    \E c \in {".", "?", ":", ";"} : ends_with(word, c)

EndsUnconditional(word) ==
    \E c \in {".", "!", "?", ":", ";"} : ends_with(word, c)

Pass1StepCommaLate(st, word, words_per_chunk) ==
    LET spaced == IF st.current_chunk # <<>>
                  THEN Append(st.current_chunk, " ")
                  ELSE st.current_chunk
        is_numbered_break == is_numbered_list_item(word)
        flush == is_numbered_break /\ spaced # <<>>
        chunks1 == IF flush THEN PushTrimmed(st.chunks, spaced) ELSE st.chunks
        current == (IF flush THEN <<>> ELSE spaced) \o word
        word_count == (IF flush THEN 0 ELSE st.word_count) + 1
    IN  IF \/ EndsUnconditional(word)
           \/ is_numbered_break
           \/ (ends_with(word, ",") /\ word_count > words_per_chunk)
        THEN [chunks |-> PushTrimmed(chunks1, current),
              current_chunk |-> <<>>, word_count |-> 0]
        ELSE [chunks |-> chunks1, current_chunk |-> current,
              word_count |-> word_count]

Pass1StepNoFlush(st, word, words_per_chunk) ==
    LET spaced == IF st.current_chunk # <<>>
                  THEN Append(st.current_chunk, " ")
                  ELSE st.current_chunk
        current == spaced \o word
        word_count == st.word_count + 1
    IN  IF \/ EndsUnconditional(word)
           \/ is_numbered_list_item(word)
           \/ (ends_with(word, ",") /\ word_count >= words_per_chunk)
        THEN [chunks |-> PushTrimmed(st.chunks, current),
              current_chunk |-> <<>>, word_count |-> 0]
        ELSE [chunks |-> st.chunks, current_chunk |-> current,
              word_count |-> word_count]

Pass1Step(st, word, words_per_chunk) ==
    LET spaced == IF st.current_chunk # <<>>
                  THEN Append(st.current_chunk, " ")
                  ELSE st.current_chunk
        is_numbered_break == is_numbered_list_item(word)
        flush == is_numbered_break /\ spaced # <<>>
        chunks1 == IF flush THEN PushTrimmed(st.chunks, spaced) ELSE st.chunks
        current == (IF flush THEN <<>> ELSE spaced) \o word
        word_count == (IF flush THEN 0 ELSE st.word_count) + 1
    IN  IF \/ EndsUnconditional(word)
           \/ is_numbered_break
           \/ (ends_with(word, ",") /\ word_count >= words_per_chunk)
        THEN [chunks |-> PushTrimmed(chunks1, current),
              current_chunk |-> <<>>, word_count |-> 0]
        ELSE [chunks |-> chunks1, current_chunk |-> current,
              word_count |-> word_count]

\* for word in words: the words first..last in order, each from the state
\* the one before it left.  The run is cut in halves so that the nesting of
\* the evaluation grows with the logarithm of the number of words; the
\* state after the first half is computed before the second half starts
\* (word_count is a usize).
RECURSIVE Pass1Range(_, _, _, _, _)
Pass1Range(st, words, first, last, words_per_chunk) ==
    IF first > last THEN st
    ELSE IF first = last THEN Pass1Step(st, words[first], words_per_chunk)
    ELSE LET mid == (first + last) \div 2
             left == Pass1Range(st, words, first, mid, words_per_chunk)
         IN  IF left.word_count >= 0
             THEN Pass1Range(left, words, mid + 1, last, words_per_chunk)
             ELSE left

Pass1Loop(st, words, i, words_per_chunk) ==
    Pass1Range(st, words, i, Len(words), words_per_chunk)

Pass1DropsTail(str, words_per_chunk) ==
    LET st == Pass1Loop([chunks |-> <<>>, current_chunk |-> <<>>, word_count |-> 0],
                        split_whitespace(str), 1, words_per_chunk)
    IN  st.chunks

Pass1(str, words_per_chunk) ==
    LET st == Pass1Loop([chunks |-> <<>>, current_chunk |-> <<>>, word_count |-> 0],
                        split_whitespace(str), 1, words_per_chunk)
    IN  PushTrimmed(st.chunks, st.current_chunk)

(***************************************************************************)
(* Pass 2 over the Pass-1 chunks: comma splits only for index < 2.         *)
(***************************************************************************)
RECURSIVE Pass2FromAllPunctuation(_, _)
Pass2FromAllPunctuation(list, index) ==
    IF index >= Len(list) THEN <<>>
    ELSE split_long_chunk_with_depth(list[index + 1], SPLIT_THRESHOLD, TRUE, 0)
         \o Pass2FromAllPunctuation(list, index + 1)

RECURSIVE Pass2From(_, _)
Pass2From(list, index) ==
    IF index >= Len(list) THEN <<>>
    ELSE split_long_chunk_with_depth(list[index + 1], SPLIT_THRESHOLD, index < 2, 0)
         \o Pass2From(list, index + 1)

Pass2(list) == Pass2From(list, 0)

(***************************************************************************)
(* Pass 3: for i in 0..len-1 (saturating), move a trailing break word of   *)
(* a chunk of more than one word to the front of the next chunk; then      *)
(* retain the chunks that are not blank.                                   *)
(***************************************************************************)
CarryStepDropsWord(final_chunks, i) ==
    LET words == split_whitespace(trim(final_chunks[i + 1]))
        last_word == words[Len(words)]
    IN  IF /\ words # <<>>
           /\ to_lowercase(last_word) \in BREAK_WORDS
           /\ Len(words) > 1
        THEN [final_chunks EXCEPT
                 ![i + 1] = join(SubSeq(words, 1, Len(words) - 1), <<" ">>)]
        ELSE final_chunks

CarryStep(final_chunks, i) ==
    LET words == split_whitespace(trim(final_chunks[i + 1]))
        last_word == words[Len(words)]
    IN  IF /\ words # <<>>
           /\ to_lowercase(last_word) \in BREAK_WORDS
           /\ Len(words) > 1
        THEN [final_chunks EXCEPT
                 ![i + 1] = join(SubSeq(words, 1, Len(words) - 1), <<" ">>),
                 ![i + 2] = last_word \o <<" ">> \o final_chunks[i + 2]]
        ELSE final_chunks

Pass3LoopNoCarry(final_chunks, i) == final_chunks

RECURSIVE Pass3Loop(_, _)
Pass3Loop(final_chunks, i) ==
    IF i + 1 >= Len(final_chunks) THEN final_chunks
    ELSE Pass3Loop(CarryStep(final_chunks, i), i + 1)

NotBlank(chunk) == trim(chunk) # <<>>

Pass3(final_chunks) == SelectSeq(Pass3Loop(final_chunks, 0), NotBlank)

split_text_into_speech_chunks(str, words_per_chunk) ==
    Pass3(Pass2(Pass1(str, words_per_chunk)))

(***************************************************************************)
(* chunk_text: the segmenter, with the fallback to the trimmed text.       *)
(***************************************************************************)
chunk_textNoBlankGuard(str) ==
    LET result == split_text_into_speech_chunks(str, WORDS_PER_CHUNK)
    IN  IF result = <<>> THEN <<str>> ELSE result

chunk_text(str) ==
    LET result == split_text_into_speech_chunks(str, WORDS_PER_CHUNK)
    IN  IF result = <<>> /\ trim(str) # <<>> THEN <<trim(str)>> ELSE result

(***************************************************************************)
(* The segmenter as a step: chunk_text applied to the input text.          *)
(***************************************************************************)
ChunkText ==
    /\ segpc = "input"
    /\ chunks' = chunk_text(text)
    /\ segpc' = "done"
    /\ UNCHANGED <<text, workers, permits, running, framing, nchunks, silence,
                   ppc, idx, chan, cons, received, accepted, calls, failed,
                   gonecalls, rpc, resp, encVars, apiVars>>


(***************************************************************************)
(* Input texts of the segmenter specification.                             *)
(***************************************************************************)
Filler == <<"w">>
CommaWord == <<"w", ",">>
PeriodWord == <<"w", ".">>
AndWord == <<"a", "n", "d">>
ButWord == <<"B", "u", "t">>
ItemWord == <<"1", ".">>
ParenItemWord == <<"(", "2", ")">>

Vocabulary == {Filler, CommaWord, PeriodWord, AndWord, ButWord, ItemWord, ParenItemWord}

SpecialWords == {CommaWord, PeriodWord, AndWord, ItemWord}

\* Every text of at most ShortWords words of the vocabulary.
ShortTexts ==
    UNION {{join(ws, <<" ">>) : ws \in [1..n -> Vocabulary]} : n \in 0..ShortWords}

\* LongWords filler words with the words a and b put at positions p <= q.
LongTexts ==
    {join([k \in 1..LongWords |->
              IF k = p THEN a ELSE IF k = q THEN b ELSE Filler], <<" ">>) :
        p \in 1..LongWords, q \in 1..LongWords, a \in SpecialWords, b \in SpecialWords}

\* n words, every period-th of them the word a, the others filler.
DeepTexts ==
    {join([k \in 1..n |-> IF k % period = 0 THEN a ELSE Filler], <<" ">>) :
        n \in 0..DeepWords, period \in 2..7, a \in {Filler, CommaWord, AndWord}}

\* Blank texts and texts with irregular whitespace.
SpacedTexts ==
    {lead \o join(ws, sep) \o trail :
        lead \in {<<>>, <<" ">>, <<"\n", " ">>},
        trail \in {<<>>, <<" ">>, <<"\t">>},
        sep \in {<<" ", " ">>, <<"\n">>},
        ws \in UNION {[1..n -> {Filler, AndWord, ItemWord}] : n \in 0..2}}

\* The texts of the repository's tests (streaming.rs, mod tests).
HelloText ==
    << "H", "e", "l", "l", "o", " ", "w", "o", "r", "l", "d", "!", " ",
       "T", "h", "i", "s", " ", "i", "s", " ", "a", " ", "t", "e", "s",
       "t", ".", " ", "H", "o", "w", " ", "a", "r", "e", " ", "y", "o",
       "u", "?" >>

NoDelimiterText ==
    << "H", "e", "l", "l", "o", " ", "w", "o", "r", "l", "d", " ", "t",
       "h", "i", "s", " ", "i", "s", " ", "a", " ", "t", "e", "s", "t" >>

NumberedListText ==
    << "1", ".", " ", "F", "i", "r", "s", "t", " ", "i", "t", "e", "m",
       " ", "2", ".", " ", "S", "e", "c", "o", "n", "d", " ", "i", "t",
       "e", "m" >>

TestTexts == {HelloText, NoDelimiterText, NumberedListText}

\* At most ShortWords words, each ending in one of the sentence marks.
MarkWords == {Filler, AndWord} \cup {<<"w", c>> : c \in {".", "!", "?", ":", ";"}}

MarkTexts ==
    UNION {{join(ws, <<" ">>) : ws \in [1..n -> MarkWords]} : n \in 0..ShortWords}

\* Up to two filler words, a run of one to three break words, then a
\* numbered item and its text.
BreakRuns == UNION {[1..n -> {AndWord, ButWord}] : n \in 1..3}

CarryTexts ==
    {join([k \in 1..n |-> Filler] \o run \o <<ItemWord, Filler>>, <<" ">>) :
        n \in 0..2, run \in BreakRuns}

\* n words, all filler but one early comma word or break word.
UnevenTexts ==
    {join([k \in 1..n |-> IF k = p THEN a ELSE Filler], <<" ">>) :
        n \in 0..DeepWords, p \in 1..5, a \in {AndWord, CommaWord}}

\* Texts long enough to be cut at every depth: 2 * DeepWords and
\* 2 * DeepWords + 16 words, every period-th of them the word a.
DepthTexts ==
    {join([k \in 1..n |-> IF k % period = 0 THEN a ELSE Filler], <<" ">>) :
        n \in {2 * DeepWords, 2 * DeepWords + 16}, period \in {3, 4, 6},
        a \in {CommaWord, AndWord}}

\* Two one-word sentences, then LongWords filler words with the word a
\* at position p and a break word at position q.
ThirdChunkTexts ==
    {join(<<PeriodWord, PeriodWord>>
              \o [k \in 1..LongWords |->
                     IF k = p THEN a ELSE IF k = q THEN AndWord ELSE Filler], <<" ">>) :
        p \in 1..LongWords, q \in 1..LongWords, a \in {CommaWord, ButWord}}

SegInputs ==
    ShortTexts \cup LongTexts \cup DeepTexts \cup SpacedTexts
        \cup TestTexts \cup MarkTexts \cup CarryTexts \cup UnevenTexts
        \cup DepthTexts \cup ThirdChunkTexts

SegInit ==
    /\ text \in SegInputs
    /\ segpc = "input"
    /\ chunks = <<>>
    /\ workers = 1
    /\ permits = 1
    /\ running = {}
    /\ framing = <<>>
    /\ nchunks = <<>>
    /\ silence = <<>>
    /\ ppc = <<>>
    /\ idx = <<>>
    /\ chan = <<>>
    /\ cons = <<>>
    /\ received = <<>>
    /\ accepted = <<>>
    /\ calls = <<>>
    /\ failed = <<>>
    /\ gonecalls = <<>>
    /\ rpc = <<>>
    /\ resp = <<>>
    /\ encin = <<>>
    /\ encpc = "done"
    /\ encout = <<>>
    /\ req = <<>>
    /\ hpc = "done"
    /\ engine = <<>>
    /\ response = <<>>

SegNext == ChunkText

SegSpec == SegInit /\ [][SegNext]_vars


(***************************************************************************)
(* The audio encoders.  An f32 sample is NaN, an infinity, or the number   *)
(* m / 2^e kept as the pair (m, e); every such pair with |m| < 2^24 is an  *)
(* f32 value.                                                              *)
(***************************************************************************)
F32_MANTISSA_BITS == 24
I16_MAX == 32767
I16_MIN == -32768

Num(m, e) == [kind |-> "num", m |-> m, e |-> e]
NaN == [kind |-> "nan", m |-> 0, e |-> 0]
Infinity(sign) == [kind |-> "inf", m |-> sign, e |-> 0]

Abs(n) == IF n < 0 THEN -n ELSE n

BitLen(a) == CHOOSE b \in 0..31 : a < 2^b /\ (b = 0 \/ a >= 2^(b - 1))

\* f32::clamp(-1.0, 1.0): NaN stays NaN
clamp(sample) ==
    IF sample.kind = "nan" THEN NaN
    ELSE IF sample.kind = "inf" THEN Num(sample.m, 0)
    ELSE IF sample.m > 2^sample.e THEN Num(1, 0)
    ELSE IF sample.m < -(2^sample.e) THEN Num(-1, 0)
    ELSE sample

\* The f32 product clamped * k: the exact product m*k / 2^e rounded to
\* F32_MANTISSA_BITS significant bits, ties to even.
MulF32(clamped, k) ==
    LET n == Abs(clamped.m * k)
        d == IF BitLen(n) > F32_MANTISSA_BITS THEN BitLen(n) - F32_MANTISSA_BITS ELSE 0
        q == n \div 2^d
        r == n % 2^d
        up == 2 * r > 2^d \/ (2 * r = 2^d /\ q % 2 = 1)
        rounded == (IF up THEN q + 1 ELSE q) * 2^d
    IN  Num(IF clamped.m * k < 0 THEN -rounded ELSE rounded, clamped.e)

\* f32::round: to the nearest integer, halves away from zero
RoundTruncates(x) ==
    LET n == Abs(x.m) \div 2^x.e
    IN  IF x.m < 0 THEN -n ELSE n

Round(x) ==
    LET n == (2 * Abs(x.m) + 2^x.e) \div 2^(x.e + 1)
    IN  IF x.m < 0 THEN -n ELSE n

\* `as i16` on an integral f32: saturating
AsI16(n) == IF n > I16_MAX THEN I16_MAX ELSE IF n < I16_MIN THEN I16_MIN ELSE n

\* NaN fails the comparison clamped <= -1.0, stays NaN through the product
\* and round(), and `as i16` turns NaN into 0.
pcm_i16_from_f32(sample) ==
    LET clamped == clamp(sample)
    IN  IF clamped.kind = "nan" THEN 0
        ELSE IF clamped.m <= -(2^clamped.e) THEN I16_MIN
        ELSE AsI16(Round(MulF32(clamped, I16_MAX)))

\* i16::to_le_bytes: the two's-complement value, low byte first
to_be_bytes(v) == << (v % 65536) \div 256, (v % 65536) % 256 >>

to_le_bytes(v) == << (v % 65536) % 256, (v % 65536) \div 256 >>

RECURSIVE samples_to_pcm_bytes(_)
samples_to_pcm_bytes(samples) ==
    IF samples = <<>> THEN <<>>
    ELSE to_le_bytes(pcm_i16_from_f32(Head(samples)))
         \o samples_to_pcm_bytes(Tail(samples))

(***************************************************************************)
(* The non-streaming encoder of api.rs.  It has its own copy of the sample *)
(* conversion and appends each sample's two bytes to a growing vector.     *)
(***************************************************************************)
api_pcm_i16_from_f32(sample) ==
    LET clamped == clamp(sample)
    IN  IF clamped.kind # "nan" /\ clamped.m <= -(2^clamped.e) THEN I16_MIN
        ELSE IF clamped.kind = "nan" THEN AsI16(0)
        ELSE AsI16(Round(MulF32(clamped, I16_MAX)))

RECURSIVE encode_pcm_big_endian_loop(_, _, _)
encode_pcm_big_endian_loop(samples, i, bytes) ==
    IF i > Len(samples) THEN bytes
    ELSE encode_pcm_big_endian_loop(samples, i + 1,
             bytes \o to_be_bytes(api_pcm_i16_from_f32(samples[i])))

encode_pcm_big_endian(samples) == encode_pcm_big_endian_loop(samples, 1, <<>>)

\* for &sample in samples { bytes.extend_from_slice(&int_sample.to_le_bytes()) }
RECURSIVE encode_pcm_loop(_, _, _)
encode_pcm_loop(samples, i, bytes) ==
    IF i > Len(samples) THEN bytes
    ELSE encode_pcm_loop(samples, i + 1,
             bytes \o to_le_bytes(api_pcm_i16_from_f32(samples[i])))

encode_pcm(samples) == encode_pcm_loop(samples, 1, <<>>)

\* Vec::concat: the sequences of a list, one after the other.
RECURSIVE concat(_)
concat(seqs) == IF seqs = <<>> THEN <<>> ELSE Head(seqs) \o concat(Tail(seqs))

(***************************************************************************)
(* create_wav_header_placeholder.  u32 and u16 values are written as       *)
(* little-endian bytes; the u32 products are computed on the bytes, so     *)
(* that a product beyond 32 bits is seen.  An overflowing product panics   *)
(* in a build with overflow checks and wraps in a build without them.      *)
(***************************************************************************)
LeBytes(v, width) == [k \in 1..width |-> (v \div 256^(k - 1)) % 256]

RECURSIVE ConvSum(_, _, _, _)
ConvSum(a, b, k, i) ==
    IF i >= Len(a) THEN 0
    ELSE (IF k - i >= 0 /\ k - i < Len(b) THEN a[i + 1] * b[k - i + 1] ELSE 0)
         + ConvSum(a, b, k, i + 1)

RECURSIVE MulDigits(_, _, _, _)
MulDigits(a, b, k, carry) ==
    IF k >= Len(a) + Len(b) THEN <<>>
    ELSE LET total == ConvSum(a, b, k, 0) + carry
         IN  <<total % 256>> \o MulDigits(a, b, k + 1, total \div 256)

\* The exact product of two little-endian byte strings.
MulBytes(a, b) == MulDigits(a, b, 0, 0)

\* u32 * u32: the low four bytes, and whether the product went beyond them.
U32Mul(a, b) ==
    LET product == MulBytes(a, b)
    IN  [value |-> SubSeq(product, 1, 4),
         overflow |-> \E k \in 5..Len(product) : product[k] # 0]

U32_ALL_ONES == <<255, 255, 255, 255>>

RIFF == <<82, 73, 70, 70>>
WAVE == <<87, 65, 86, 69>>
FMT == <<102, 109, 116, 32>>
DATA == <<100, 97, 116, 97>>

HeaderBytes(bytes) == [kind |-> "bytes", value |-> 0, bytes |-> bytes]
Panic == [kind |-> "panic", value |-> 0, bytes |-> <<>>]

create_wav_header_swapped(sample_rate, bits_per_sample, num_channels, overflow_checks) ==
    LET units == bits_per_sample \div 8
        rate_channels == U32Mul(LeBytes(sample_rate, 4), LeBytes(num_channels, 4))
        byte_rate == U32Mul(rate_channels.value, LeBytes(units, 4))
        block_align == num_channels * units
    IN  IF /\ overflow_checks
           /\ (rate_channels.overflow \/ byte_rate.overflow \/ block_align > 65535)
        THEN Panic
        ELSE HeaderBytes(
                 RIFF \o U32_ALL_ONES \o WAVE
                 \o FMT \o LeBytes(16, 4) \o LeBytes(1, 2)
                 \o LeBytes(num_channels, 2) \o byte_rate.value
                 \o LeBytes(sample_rate, 4) \o LeBytes(block_align % 65536, 2)
                 \o LeBytes(bits_per_sample, 2)
                 \o DATA \o U32_ALL_ONES)

create_wav_header_placeholder(sample_rate, bits_per_sample, num_channels, overflow_checks) ==
    LET units == bits_per_sample \div 8
        rate_channels == U32Mul(LeBytes(sample_rate, 4), LeBytes(num_channels, 4))
        byte_rate == U32Mul(rate_channels.value, LeBytes(units, 4))
        block_align == num_channels * units
    IN  IF /\ overflow_checks
           /\ (rate_channels.overflow \/ byte_rate.overflow \/ block_align > 65535)
        THEN Panic
        ELSE HeaderBytes(
                 RIFF \o U32_ALL_ONES \o WAVE
                 \o FMT \o LeBytes(16, 4) \o LeBytes(1, 2)
                 \o LeBytes(num_channels, 2) \o LeBytes(sample_rate, 4)
                 \o byte_rate.value \o LeBytes(block_align % 65536, 2)
                 \o LeBytes(bits_per_sample, 2)
                 \o DATA \o U32_ALL_ONES)

(***************************************************************************)
(* The encoders as steps: each applies one encoder to the input.           *)
(***************************************************************************)
I16(v) == [kind |-> "i16", value |-> v, bytes |-> <<>>]

PcmI16FromF32 ==
    /\ encpc = "input"
    /\ encin.op = "sample"
    /\ encout' = I16(pcm_i16_from_f32(encin.sample))
    /\ encpc' = "done"
    /\ UNCHANGED <<encin, text, segpc, chunks, workers, permits, running,
                   framing, nchunks, silence, ppc, idx, chan, cons, received,
                   accepted, calls, failed, gonecalls, rpc, resp, apiVars>>

SamplesToPcmBytes ==
    /\ encpc = "input"
    /\ encin.op = "pcm"
    /\ encout' = HeaderBytes(samples_to_pcm_bytes(encin.samples))
    /\ encpc' = "done"
    /\ UNCHANGED <<encin, text, segpc, chunks, workers, permits, running,
                   framing, nchunks, silence, ppc, idx, chan, cons, received,
                   accepted, calls, failed, gonecalls, rpc, resp, apiVars>>

CreateWavHeaderPlaceholder ==
    /\ encpc = "input"
    /\ encin.op = "header"
    /\ \E overflow_checks \in BOOLEAN :
          encout' = create_wav_header_placeholder(encin.sample_rate,
                        encin.bits_per_sample, encin.num_channels, overflow_checks)
    /\ encpc' = "done"
    /\ UNCHANGED <<encin, text, segpc, chunks, workers, permits, running,
                   framing, nchunks, silence, ppc, idx, chan, cons, received,
                   accepted, calls, failed, gonecalls, rpc, resp, apiVars>>

\* The same audio encoded both ways: one frame per chunk as the PCM stream
\* sends them, and one body for all the samples as the non-streaming
\* response builds it.
EncodeChunks ==
    /\ encpc = "input"
    /\ encin.op = "chunks"
    /\ encout' = [kind |-> "chunks", value |-> 0,
                  bytes |-> encode_pcm(concat([k \in DOMAIN encin.samples |->
                                                  encin.samples[k].samples])),
                  frames |-> [k \in DOMAIN encin.samples |->
                                 samples_to_pcm_bytes(encin.samples[k].samples)]]
    /\ encpc' = "done"
    /\ UNCHANGED <<encin, text, segpc, chunks, workers, permits, running,
                   framing, nchunks, silence, ppc, idx, chan, cons, received,
                   accepted, calls, failed, gonecalls, rpc, resp, apiVars>>

(***************************************************************************)
(* Inputs of the encoder specification.                                    *)
(***************************************************************************)
EncInput(op, sample, samples, sample_rate, bits_per_sample, num_channels) ==
    [op |-> op, sample |-> sample, samples |-> samples, sample_rate |-> sample_rate,
     bits_per_sample |-> bits_per_sample, num_channels |-> num_channels]

\* Every multiple of 2^-SampleBits from just below -1 to just above 1.
GridSamples ==
    {Num(m, SampleBits) : m \in -(2^SampleBits + 4)..(2^SampleBits + 4)}

WholeSamples == {Num(m, 0) : m \in -2..2}

SpecialSamples == {NaN, Infinity(1), Infinity(-1)}

\* test_samples_to_pcm_bytes: [0.0, 0.5, -0.5, 1.0, -1.0]
TestSamples == << Num(0, 0), Num(1, 1), Num(-1, 1), Num(1, 0), Num(-1, 0) >>

ListSamples ==
    {Num(0, 0), Num(1, 1), Num(-1, 1), Num(1, 0), Num(-1, 0), Num(3, 1), NaN,
     Num(513, 10), Num(-1, 10)}

SampleLists == UNION {[1..n -> ListSamples] : n \in 0..MaxSamples} \cup {TestSamples}

SampleRates == {8000, 24000, 44100, 2147483647}
BitDepths == {8, 12, 16, 24, 32, 65535}
ChannelCounts == 1..MaxChannels \cup {65535}

\* Per-chunk samples: a value that rounds, and NaN.
ChunkSamples == {Num(513, 10), NaN}

\* AudioData: what one engine call returns
AudioData(samples) == [samples |-> samples]

ChunkAudio ==
    {AudioData(l) : l \in UNION {[1..n -> ChunkSamples] : n \in 0..MaxChunkSamples}}

ChunkLists == UNION {[1..n -> ChunkAudio] : n \in 0..MaxStreamChunks}

EncInputs ==
    {EncInput("sample", s, <<>>, 0, 0, 0) :
        s \in GridSamples \cup WholeSamples \cup SpecialSamples}
    \cup {EncInput("pcm", NaN, l, 0, 0, 0) : l \in SampleLists}
    \cup {EncInput("header", NaN, <<>>, r, b, c) :
            r \in SampleRates, b \in BitDepths, c \in ChannelCounts}
    \cup {EncInput("chunks", NaN, l, 0, 0, 0) : l \in ChunkLists}

EncInit ==
    /\ encin \in EncInputs
    /\ encpc = "input"
    /\ encout = <<>>
    /\ text = <<>>
    /\ segpc = "done"
    /\ chunks = <<>>
    /\ workers = 1
    /\ permits = 1
    /\ running = {}
    /\ framing = <<>>
    /\ nchunks = <<>>
    /\ silence = <<>>
    /\ ppc = <<>>
    /\ idx = <<>>
    /\ chan = <<>>
    /\ cons = <<>>
    /\ received = <<>>
    /\ accepted = <<>>
    /\ calls = <<>>
    /\ failed = <<>>
    /\ gonecalls = <<>>
    /\ rpc = <<>>
    /\ resp = <<>>
    /\ req = <<>>
    /\ hpc = "done"
    /\ engine = <<>>
    /\ response = <<>>

EncNext ==
    \/ PcmI16FromF32
    \/ SamplesToPcmBytes
    \/ CreateWavHeaderPlaceholder
    \/ EncodeChunks

EncSpec == EncInit /\ [][EncNext]_vars

(***************************************************************************)
(* The speech endpoint: speech_handler validates the request, then either  *)
(* starts a stream or makes one engine call and encodes its samples.       *)
(* A string that the code inspects character by character is a sequence    *)
(* of one-character strings; a message is the sequence of its pieces.      *)
(***************************************************************************)
Ok(v) == [ok |-> TRUE, value |-> v]
Err(e) == [ok |-> FALSE, error |-> e]

Range(seq) == {seq[i] : i \in DOMAIN seq}

VALID_RESPONSE_FORMATS ==
    << <<"w", "a", "v">>, <<"p", "c", "m">>, <<"m", "p", "3">>, <<"o", "p", "u", "s">> >>

OPENAI_VOICE_ALIASES ==
    << <<"alloy", "af_alloy">>, <<"echo", "am_echo">>, <<"fable", "bm_fable">>,
       <<"nova", "af_nova">>, <<"onyx", "am_onyx">>, <<"shimmer", "af_shimmer">>,
       <<"ash", "am_adam">>, <<"ballad", "am_michael">>, <<"verse", "am_eric">>,
       <<"cedar", "am_liam">>, <<"coral", "af_nicole">>, <<"sage", "af_sarah">>,
       <<"marin", "af_river">> >>

\* The ids of AVAILABLE_VOICES
AVAILABLE_VOICES ==
    {"af_alloy", "af_heart", "af_nova", "af_river", "af_shimmer", "am_adam",
     "am_echo", "am_fenrir", "am_onyx", "am_puck", "am_santa", "bf_alice",
     "bf_emma", "bf_lily", "bm_daniel", "bm_fable", "bm_george", "bm_lewis",
     "jf_alpha", "jf_gongitsune", "jf_nezumi", "jf_tebukuro", "jm_kumo",
     "zf_xiaobei", "zf_xiaoni", "zf_xiaoxiao", "zf_yunjian", "zf_yunxia",
     "zf_yunxi", "zm_yunjian", "ef_dora", "em_alex", "em_santa", "ff_siwis",
     "hf_alpha", "hf_beta", "hm_omega", "hm_psi", "if_sara", "im_nicola",
     "pf_dora", "pm_alex", "pm_santa"}

get_available_voices == AVAILABLE_VOICES

accepted_model_ids == {"tts-1", "kokoro"}

(***************************************************************************)
(* AppError and its constructors.                                          *)
(***************************************************************************)
AppError(variant, arg) == [variant |-> variant, arg |-> arg]

invalid_request(msg) == AppError("InvalidRequest", msg)
unsupported_format(format) == AppError("InvalidResponseFormat", format)
voice_not_found(voice) == AppError("VoiceNotFound", <<voice>>)
model_not_found(model) == AppError("ModelNotFound", <<model>>)
Backend(msg) == AppError("Backend", msg)
Internal == AppError("Internal", <<>>)

(***************************************************************************)
(* The validators of validation.rs.                                        *)
(***************************************************************************)
validate_response_format(format) ==
    LET format_lower == to_lowercase(format)
    IN  IF format_lower \in Range(VALID_RESPONSE_FORMATS)
        THEN Ok(format_lower)
        ELSE Err(unsupported_format(format))

validate_input(input, max_chars) ==
    IF input = <<>>
    THEN Err(invalid_request(<<"Input text cannot be empty">>))
    ELSE IF Len(input) > max_chars
    THEN Err(invalid_request(<<"Input text exceeds maximum length of ",
                               ToString(max_chars), " characters">>))
    ELSE Ok(<<>>)

validate_model(model) ==
    IF model \in accepted_model_ids THEN Ok(model) ELSE Err(model_not_found(model))

\* The request voices of the model are lower-case, so that
\* eq_ignore_ascii_case is equality.
resolve_legacy_voice_alias(voice) ==
    IF \E i \in DOMAIN OPENAI_VOICE_ALIASES : OPENAI_VOICE_ALIASES[i][1] = voice
    THEN OPENAI_VOICE_ALIASES[
             CHOOSE i \in DOMAIN OPENAI_VOICE_ALIASES :
                 /\ OPENAI_VOICE_ALIASES[i][1] = voice
                 /\ \A j \in 1..(i - 1) : OPENAI_VOICE_ALIASES[j][1] # voice][2]
    ELSE voice

validate_voice(voice, available_voices) ==
    LET resolved_voice == resolve_legacy_voice_alias(voice)
    IN  IF resolved_voice \in available_voices
        THEN Ok(resolved_voice)
        ELSE Err(voice_not_found(voice))

\* The text `{}` gives for an f32, as a rendering of the pair (m, e).
DisplayF32(x) == <<ToString(x.m), "/2^", ToString(x.e)>>

\* MIN_SPEED = 0.25 and MAX_SPEED = 4.0
validate_speed(speed) ==
    IF speed.kind \in {"nan", "inf"}
    THEN Err(invalid_request(<<"Speed must be a finite number">>))
    ELSE IF ~(4 * speed.m >= 2^speed.e /\ speed.m <= 4 * 2^speed.e)
    THEN Err(invalid_request(<<"Speed must be between ", "0.25", " and ", "4", ", got ">>
                             \o DisplayF32(speed)))
    ELSE Ok(speed)

(***************************************************************************)
(* HTTP responses.  An error response carries the JSON fields of           *)
(* ErrorDetails; a success carries audio bytes or a body stream, with the  *)
(* framing the encoder or the stream constructor gives them.               *)
(***************************************************************************)
Response(status, content_type, kind, encoding, message, error_type, param) ==
    [status |-> status, content_type |-> content_type, kind |-> kind,
     framing |-> encoding, message |-> message, error_type |-> error_type,
     param |-> param]

NoResponse == Response(0, "", "none", "", <<>>, "", None)

ErrorResponse(status, error_type, message, param) ==
    Response(status, "application/json", "error", "", message, error_type, param)

AudioResponse(content_type, kind, encoding) ==
    Response(200, content_type, kind, encoding, <<>>, "", None)

into_response_forwards_message(e) ==
    IF e.variant = "Backend" THEN ErrorResponse(500, "api_error", e.arg, None)
    ELSE ErrorResponse(500, "api_error", <<"Internal server error">>, None)

into_response(e) ==
    IF e.variant = "InvalidRequest"
    THEN ErrorResponse(400, "invalid_request_error", e.arg, None)
    ELSE IF e.variant = "ModelNotFound"
    THEN ErrorResponse(400, "invalid_request_error",
                       <<"Model '">> \o e.arg \o <<"' not found">>, Some("model"))
    ELSE IF e.variant = "VoiceNotFound"
    THEN ErrorResponse(400, "invalid_request_error",
                       <<"Voice '">> \o e.arg \o <<"' not found">>, Some("voice"))
    ELSE IF e.variant = "InvalidResponseFormat"
    THEN ErrorResponse(400, "invalid_request_error",
                       <<"Response format '">> \o e.arg
                           \o <<"' not supported. Supported formats: wav, pcm">>,
                       Some("response_format"))
    ELSE IF e.variant = "Backend"
    THEN ErrorResponse(500, "api_error", <<"Backend processing error">>, None)
    ELSE ErrorResponse(500, "api_error", <<"Internal server error">>, None)

(***************************************************************************)
(* The error backend.synthesize returns: an anyhow chain, outermost        *)
(* context first; to_string() gives the outermost context only.            *)
(***************************************************************************)
JoinErrorText == "task panicked"

SynthesizeError(outcome, message) ==
    IF outcome = "panic"
    THEN << <<"Inference task panicked">>, <<JoinErrorText>> >>
    ELSE << <<"Inference failed">>, <<"TTS inference failed: ", message>> >>

to_string(chain) == chain[1]

(***************************************************************************)
(* speech_handler up to its first await: the validations in the order of   *)
(* the code, each ending the handler on its error; then the streaming      *)
(* branch returns the response with the body stream, and the               *)
(* non-streaming branch enters backend.synthesize.                         *)
(***************************************************************************)
Validated(r) ==
    LET model == validate_model(r.model)
        input == validate_input(r.input, MaxInputChars)
        format == validate_response_format(r.response_format)
        voice == validate_voice(r.voice, get_available_voices)
        speed == validate_speed(r.speed)
    IN  IF ~model.ok THEN model
        ELSE IF ~input.ok THEN input
        ELSE IF ~format.ok THEN format
        ELSE IF ~voice.ok THEN voice
        ELSE IF ~speed.ok THEN speed
        ELSE Ok([format |-> format.value, voice |-> voice.value, speed |-> speed.value])

unwrap_or(opt, default) == IF opt = None THEN default ELSE opt[1]

ContentType(format) ==
    IF format = <<"w", "a", "v">> THEN "audio/wav" ELSE "audio/pcm"

Framing(format) ==
    IF format = <<"w", "a", "v">> THEN "wav" ELSE "pcm"

apiRest == <<workers, permits, running, framing, nchunks, silence, ppc, idx, chan,
             cons, received, accepted, calls, failed, gonecalls, rpc, resp,
             segVars, encVars>>

SpeechHandler ==
    /\ hpc = "received"
    /\ LET v == Validated(req)
       IN  IF ~v.ok
           THEN /\ response' = into_response(v.error)
                /\ hpc' = "done"
           ELSE IF unwrap_or(req.stream, FALSE)
           THEN /\ response' = AudioResponse(ContentType(v.value.format), "stream",
                                             Framing(v.value.format))
                /\ hpc' = "done"
           ELSE /\ response' = response
                /\ hpc' = "synthesize"
    /\ UNCHANGED <<req, engine, apiRest>>

\* backend.synthesize starts the engine call
HandlerSynthesize ==
    /\ hpc = "synthesize"
    /\ engine' = Append(engine, [outcome |-> "running", message |-> ""])
    /\ hpc' = "engine"
    /\ UNCHANGED <<req, response, apiRest>>

\* The engine call returns: the error is mapped to AppError::Backend, the
\* samples are encoded (encode_wav can fail, encode_pcm cannot) and sent.
HandlerReturns(outcome, message, wav_written) ==
    /\ hpc = "engine"
    /\ engine' = [engine EXCEPT ![Len(engine)] =
                      [outcome |-> outcome,
                       message |-> IF outcome = "err" THEN message ELSE ""]]
    /\ hpc' = "done"
    /\ LET format == Validated(req).value.format
       IN  response' =
               IF outcome # "ok"
               THEN into_response(Backend(to_string(SynthesizeError(outcome, message))))
               ELSE IF format = <<"w", "a", "v">> /\ ~wav_written
               THEN into_response(Internal)
               ELSE AudioResponse(ContentType(format), "bytes", Framing(format))
    /\ UNCHANGED <<req, apiRest>>

(***************************************************************************)
(* Requests of the endpoint specification.                                 *)
(***************************************************************************)
SpeechRequest(model, input, voice, response_format, speed, stream) ==
    [model |-> model, input |-> input, voice |-> voice,
     response_format |-> response_format, speed |-> speed, stream |-> stream]

\* Models, inputs of 0..MaxInputChars + 1 characters, voices (available,
\* alias of an available voice, alias of a missing voice, unknown), formats,
\* speeds (1, 0.25, 4, 0.125, 5, NaN, infinity) and stream flags.
SpeechRequests ==
    {SpeechRequest(m, i, v, f, s, st) :
        m \in {"tts-1", "kokoro", "gpt-4o"},
        i \in {[k \in 1..n |-> "x"] : n \in 0..(MaxInputChars + 1)},
        v \in {"af_heart", "alloy", "ballad", "nobody"},
        f \in { <<"w", "a", "v">>, <<"W", "A", "V">>, <<"p", "c", "m">>,
                <<"P", "c", "m">>, <<"m", "p", "3">>, <<"M", "P", "3">>,
                <<"o", "p", "u", "s">>, <<"f", "l", "a", "c">>, <<>> },
        s \in {Num(1, 0), Num(1, 2), Num(4, 0), Num(1, 3), Num(5, 0), NaN, Infinity(1)},
        st \in {None, Some(FALSE), Some(TRUE)}}

EngineMessages == {"voice file missing", "session run failed"}

ApiInit ==
    /\ req \in SpeechRequests
    /\ hpc = "received"
    /\ engine = <<>>
    /\ response = NoResponse
    /\ encin = <<>>
    /\ encpc = "done"
    /\ encout = <<>>
    /\ text = <<>>
    /\ segpc = "done"
    /\ chunks = <<>>
    /\ workers = 1
    /\ permits = 1
    /\ running = {}
    /\ framing = <<>>
    /\ nchunks = <<>>
    /\ silence = <<>>
    /\ ppc = <<>>
    /\ idx = <<>>
    /\ chan = <<>>
    /\ cons = <<>>
    /\ received = <<>>
    /\ accepted = <<>>
    /\ calls = <<>>
    /\ failed = <<>>
    /\ gonecalls = <<>>
    /\ rpc = <<>>
    /\ resp = <<>>

ApiNext ==
    \/ SpeechHandler
    \/ HandlerSynthesize
    \/ \E outcome \in Outcomes, message \in EngineMessages, wav_written \in BOOLEAN :
           HandlerReturns(outcome, message, wav_written)

ApiSpec == ApiInit /\ [][ApiNext]_vars

(***************************************************************************)
(* LiveSpec: LiveStreams concurrent streams and the non-streaming          *)
(* requests under the scheduling the runtime gives: every engine call      *)
(* returns (weak fairness of the returns), the semaphore grants permits    *)
(* fairly (strong fairness of each stream's acquisition), a producer that  *)
(* can take its step takes it, and every consumer keeps draining or goes   *)
(* away.                                                                   *)
(***************************************************************************)
LiveInit == StreamInit(1..LiveStreams, 1..NumRequests, 1..MaxWorkers, 1..LiveChunks, {None})

StreamFairness(s) ==
    /\ WF_vars(SendHeader(s))
    /\ SF_vars(Synthesize(s))
    /\ WF_vars(\E outcome \in Outcomes : SynthesizeReturns(s, outcome))
    /\ WF_vars(SendFrame(s))
    /\ WF_vars(SendError(s))
    /\ WF_vars(Recv(s) \/ ConsumerDrop(s))

RequestFairness(r) ==
    /\ WF_vars(\E outcome \in Outcomes : RequestReturns(r, outcome))
    /\ WF_vars(DetachedTaskEnds(r))

LiveSpec ==
    /\ LiveInit
    /\ [][Next]_vars
    /\ \A s \in 1..LiveStreams : StreamFairness(s)
    /\ \A r \in 1..NumRequests : RequestFairness(r)

(***************************************************************************)
(* Helpers of the stream claims.                                           *)
(***************************************************************************)
IsPrefix(a, b) == Len(a) <= Len(b) /\ a = SubSeq(b, 1, Len(a))

HeaderPart(f) == IF f = "wav" THEN <<HeaderFrame>> ELSE <<>>

OrderedFrames(f, n) == HeaderPart(f) \o [i \in 1..n |-> AudioFrame(i - 1)]

ExpectedOnFailure(f, k) == Append(OrderedFrames(f, k), ErrorFrame)

InChunkOrder(q, f, n) ==
    \E m \in 0..Len(OrderedFrames(f, n)) :
        \/ q = SubSeq(OrderedFrames(f, n), 1, m)
        \/ /\ m >= Len(HeaderPart(f))
           /\ q = Append(SubSeq(OrderedFrames(f, n), 1, m), ErrorFrame)

HeaderCount(q) == Cardinality({j \in 1..Len(q) : q[j] = HeaderFrame})

TasksOf(s) == {t \in running : t.owner = "stream" /\ t.id = s}

(***************************************************************************)
(* C1: a stream whose engine call first fails on chunk k delivers, to a    *)
(* consumer that keeps draining, the header (WAV only), the audio frames   *)
(* of chunks 0..k-1, one error frame, then end of stream; no frame of a    *)
(* chunk >= k is ever enqueued and no engine call is made for a chunk > k. *)
(***************************************************************************)
C1_FailFast ==
    \A s \in Streams :
        failed[s] # None =>
            /\ IsPrefix(received[s], ExpectedOnFailure(framing[s], failed[s][1]))
            /\ (cons[s] = "eos" =>
                    received[s] = ExpectedOnFailure(framing[s], failed[s][1]))
            /\ \A j \in 1..Len(calls[s]) : calls[s][j].chunk <= failed[s][1]
            /\ \A j \in 1..Len(accepted[s]) :
                    accepted[s][j].kind = "audio" => accepted[s][j].chunk < failed[s][1]

C1_Witness ==
    \E s \in Streams :
        /\ framing[s] = "wav"
        /\ nchunks[s] = 4
        /\ failed[s] = Some(2)
        /\ cons[s] = "eos"
        /\ Len(received[s]) = 4

(***************************************************************************)
(* C2 as claimed: frames reach the consumer in chunk order with none       *)
(* duplicated or reordered; with WAV framing the header is enqueued        *)
(* exactly once and before every chunk frame; with PCM framing no header   *)
(* is ever enqueued.                                                       *)
(***************************************************************************)
FramesInOrder(s) ==
    /\ InChunkOrder(accepted[s], framing[s], nchunks[s])
    /\ IsPrefix(received[s], accepted[s])
    /\ (cons[s] # "gone" => received[s] \o chan[s] = accepted[s])

C2_HeaderExactlyOnce ==
    \A s \in Streams :
        /\ FramesInOrder(s)
        /\ (framing[s] = "pcm" => HeaderCount(accepted[s]) = 0)
        /\ (framing[s] = "wav" /\ ppc[s] # "header" => HeaderCount(accepted[s]) = 1)

(***************************************************************************)
(* C2 as amended: the same, except that the WAV header is enqueued at most *)
(* once, and exactly once unless the consumer had gone away before the     *)
(* header send, in which case nothing at all is enqueued and no engine     *)
(* call is made.                                                           *)
(***************************************************************************)
C2_FramesInOrder ==
    \A s \in Streams :
        /\ FramesInOrder(s)
        /\ (framing[s] = "pcm" => HeaderCount(accepted[s]) = 0)
        /\ (framing[s] = "wav" /\ ppc[s] # "header" =>
                \/ HeaderCount(accepted[s]) = 1
                \/ /\ cons[s] = "gone"
                   /\ ppc[s] = "done"
                   /\ accepted[s] = <<>>
                   /\ calls[s] = <<>>)

C2_Witness ==
    \E s \in Streams :
        /\ framing[s] = "wav"
        /\ cons[s] = "open"
        /\ Len(received[s]) >= 3
        /\ received[s][1] = HeaderFrame
        /\ received[s][3] = AudioFrame(1)

(***************************************************************************)
(* C3: the number of engine calls executing at once never exceeds the      *)
(* worker limit, whatever the streaming and non-streaming requests do,     *)
(* abandoned requests included.                                            *)
(***************************************************************************)
C3_GateLimit == Cardinality(running) <= workers

(***************************************************************************)
(* C4: within one stream at most one engine call is in flight, chunk j is  *)
(* the j-th call (so no chunk is passed twice), and the call for chunk     *)
(* i+1 starts only after the channel has accepted chunk i's frame.         *)
(***************************************************************************)
C4_SequentialCalls ==
    \A s \in Streams :
        /\ Cardinality(TasksOf(s)) <= 1
        /\ \A j \in 1..Len(calls[s]) :
              /\ calls[s][j].chunk = j - 1
              /\ (j >= 2 => \E a \in 1..Len(accepted[s]) :
                                accepted[s][a] = AudioFrame(j - 2))

C4_Witness ==
    \E s \in Streams :
        /\ Len(calls[s]) >= 3
        /\ Cardinality(TasksOf(s)) = 1
        /\ Len(chan[s]) >= 2

(***************************************************************************)
(* C5: a channel never buffers more than 8 frames, and while it holds 8    *)
(* no further frame is accepted: the producer stays suspended until the    *)
(* consumer has removed one.                                               *)
(***************************************************************************)
C5_BoundedChannel ==
    /\ [](\A s \in Streams : Len(chan[s]) <= 8)
    /\ [][\A s \in Streams : Len(chan[s]) = 8 => accepted'[s] = accepted[s]]_vars

C5_Witness ==
    \E s \in Streams :
        /\ Len(chan[s]) = 8
        /\ ppc[s] = "send"
        /\ cons[s] = "open"

(***************************************************************************)
(* C6 as claimed: once the consumer has gone away the producer starts no   *)
(* new engine call; the disappearance is detected at the next enqueue      *)
(* attempt, after which the producer stops without enqueuing an error      *)
(* frame.                                                                  *)
(***************************************************************************)
EnqueuePositions == {"header", "send", "senderr"}

StopsAtEnqueue(s) ==
    /\ accepted'[s] = accepted[s]
    /\ (ppc[s] \in EnqueuePositions /\ ppc'[s] # ppc[s] => ppc'[s] = "done")
    /\ (ppc[s] = "done" => ppc'[s] = "done" /\ calls'[s] = calls[s])

C6_NoCallAfterGone ==
    [][\A s \in Streams :
          cons[s] = "gone" => calls'[s] = calls[s] /\ StopsAtEnqueue(s)]_vars

(***************************************************************************)
(* C6 as amended: once the consumer has gone away the producer starts at   *)
(* most one new engine call (the one before its next enqueue attempt); at  *)
(* that attempt the disappearance is detected and the producer stops, and  *)
(* no frame, the error frame included, is enqueued after the consumer has  *)
(* gone.                                                                   *)
(***************************************************************************)
C6_StopsAtNextEnqueue ==
    /\ [](\A s \in Streams : gonecalls[s] <= 1)
    /\ [][\A s \in Streams : cons[s] = "gone" => StopsAtEnqueue(s)]_vars

C6_Witness ==
    \E s \in Streams :
        /\ cons[s] = "gone"
        /\ gonecalls[s] = 1
        /\ failed[s] # None
        /\ ppc[s] = "done"

(***************************************************************************)
(* C7: the requested leading silence goes to the engine only in the call   *)
(* for chunk 0; every call for a chunk >= 1 carries none, so at most one   *)
(* call of a request carries it.                                           *)
(***************************************************************************)
C7_SilenceOnlyFirst ==
    \A s \in Streams :
        /\ \A j \in 1..Len(calls[s]) :
              calls[s][j].silence =
                  IF calls[s][j].chunk = 0 THEN silence[s] ELSE None
        /\ Cardinality({j \in 1..Len(calls[s]) : calls[s][j].silence # None}) <= 1
        /\ \A t \in TasksOf(s) : t.chunk >= 1 => t.silence = None

C7_Witness ==
    \E s \in Streams :
        /\ silence[s] = Some(1)
        /\ Len(calls[s]) >= 2
        /\ calls[s][1].silence = Some(1)

(***************************************************************************)
(* C8: with every engine call returning, permits granted fairly and every  *)
(* consumer draining or going away, each stream's producer task            *)
(* eventually terminates and its consumer eventually observes end of       *)
(* stream (or has gone away).                                              *)
(***************************************************************************)
C8_ProducerTerminates ==
    \A s \in 1..LiveStreams :
        /\ <>(ppc[s] = "done")
        /\ <>(cons[s] \in {"eos", "gone"})
        /\ [](cons[s] = "eos" => ppc[s] = "done" /\ received[s] = accepted[s])

C8_Witness ==
    /\ \A s \in Streams : ppc[s] = "done" /\ nchunks[s] >= 1
    /\ \E s \in Streams : cons[s] = "eos" /\ failed[s] = None
    /\ \E s \in Streams : cons[s] = "eos" /\ failed[s] # None
    /\ Cardinality(Streams) >= 2

(***************************************************************************)
(* C9: joining the returned chunks with single spaces gives the input's    *)
(* words, in their order, joined by single spaces.                         *)
(***************************************************************************)
C9_RejoinGivesWords ==
    segpc = "done" =>
        join(chunks, <<" ">>) = join(split_whitespace(text), <<" ">>)

PassesAllActed ==
    LET pass1 == Pass1(text, WORDS_PER_CHUNK)
        pass2 == Pass2(pass1)
    IN  /\ Len(pass1) >= 1
        /\ Len(pass2) > Len(pass1)
        /\ Pass3Loop(pass2, 0) # pass2

C9_Witness ==
    /\ segpc = "done"
    /\ PassesAllActed
    /\ Len(chunks) >= 2

(***************************************************************************)
(* C10: every returned chunk holds at least one word, also after Pass 3    *)
(* has moved trailing break words to the following chunk.                  *)
(***************************************************************************)
C10_NoEmptyChunk ==
    segpc = "done" =>
        \A i \in 1..Len(chunks) : split_whitespace(chunks[i]) # <<>>

C10_Witness ==
    /\ segpc = "done"
    /\ Len(chunks) >= 2
    /\ Pass3Loop(Pass2(Pass1(text, WORDS_PER_CHUNK)), 0)
           # Pass2(Pass1(text, WORDS_PER_CHUNK))
    /\ \E i \in 1..Len(chunks) : Len(split_whitespace(chunks[i])) = 1

(***************************************************************************)
(* C11: the segmenter returns the empty sequence exactly when the input    *)
(* has no word, and for an input with a word chunk_text returns what       *)
(* split_text_into_speech_chunks returned: the fallback to the trimmed     *)
(* text is never taken.                                                    *)
(***************************************************************************)
C11_EmptyOnlyWhenBlank ==
    segpc = "done" =>
        /\ (chunks = <<>> <=> split_whitespace(text) = <<>>)
        /\ chunks = split_text_into_speech_chunks(text, WORDS_PER_CHUNK)

C11_Witness ==
    /\ segpc = "done"
    /\ text # <<>>
    /\ split_whitespace(text) = <<>>
    /\ chunks = <<>>

(***************************************************************************)
(* C12: a word ending in '.', '!', '?', ':' or ';' is the last word of     *)
(* the returned chunk that holds it, and "Hello world! This is a test.     *)
(* How are you?" gives the chunks "Hello world!", "This is a test.",       *)
(* "How are you?".                                                         *)
(***************************************************************************)
MarkOnlyLast(chunk) ==
    LET words == split_whitespace(chunk)
    IN  \A k \in 1..Len(words) :
            (\E c \in {".", "!", "?", ":", ";"} : ends_with(words[k], c))
                => k = Len(words)

C13_NumberedListTwoChunks ==
    segpc = "done" /\ text = NumberedListText =>
        chunks = << SubSeq(NumberedListText, 1, 13), SubSeq(NumberedListText, 15, 28) >>

(***************************************************************************)
(* C14 as claimed: no returned chunk has more than 24 words.               *)
(***************************************************************************)
WordCount(chunk) == Len(split_whitespace(chunk))

RECURSIVE PieceOrigins(_, _)
PieceOrigins(list, index) ==
    IF index >= Len(list) THEN <<>>
    ELSE LET pieces == split_long_chunk_with_depth(list[index + 1], SPLIT_THRESHOLD,
                                                   index < 2, 0)
         IN  [k \in 1..Len(pieces) |-> index] \o PieceOrigins(list, index + 1)

Unsplittable(piece, use_punctuation) ==
    LET words == split_whitespace(piece)
        center == Len(words) \div 2
    IN  /\ ~(/\ use_punctuation
             /\ QualifyingSplit(find_closest_punctuation(words, center, {","}), words))
        /\ ~QualifyingSplit(find_closest_break_word(words, center, BREAK_WORDS), words)

EndsWithBreakWord(words) ==
    words # <<>> /\ to_lowercase(words[Len(words)]) \in BREAK_WORDS

C15_NoDanglingBreakWord ==
    segpc = "done" =>
        \A i \in 1..(Len(chunks) - 1) :
            WordCount(chunks[i]) > 1 => ~EndsWithBreakWord(split_whitespace(chunks[i]))

(***************************************************************************)
(* C15 as amended: Pass 3 takes one trailing break word off each chunk it  *)
(* visits.  A returned chunk other than the last that has more than one    *)
(* word ends with a break word only if, when Pass 3 visited it, it ended   *)
(* with two break words in a row; the last of them was moved to the next   *)
(* chunk and the one before it stays at the end.                           *)
(***************************************************************************)
RECURSIVE BeforeVisit(_, _)
BeforeVisit(final_chunks, i) ==
    IF i = 0 THEN final_chunks ELSE CarryStep(BeforeVisit(final_chunks, i - 1), i - 1)

C15_OneBreakWordCarried ==
    segpc = "done" =>
        LET pass2 == Pass2(Pass1(text, WORDS_PER_CHUNK))
        IN  /\ Len(chunks) = Len(pass2)
            /\ \A i \in 1..(Len(chunks) - 1) :
                  LET seen == split_whitespace(BeforeVisit(pass2, i - 1)[i])
                      kept == split_whitespace(chunks[i])
                  IN  Len(kept) > 1 /\ EndsWithBreakWord(kept) =>
                          /\ Len(seen) >= 3
                          /\ EndsWithBreakWord(seen)
                          /\ kept = SubSeq(seen, 1, Len(seen) - 1)

C15_Witness ==
    /\ segpc = "done"
    /\ Len(chunks) >= 3
    /\ WordCount(chunks[1]) > 1
    /\ EndsWithBreakWord(split_whitespace(chunks[1]))
    /\ ~EndsWithBreakWord(split_whitespace(chunks[2]))

(***************************************************************************)
(* C16 as claimed: the conversion gives 32767 for 1.0, -32768 for -1.0,    *)
(* 0 for 0.0, 32767 above 1.0, -32768 below -1.0, and for every other      *)
(* input x the integer nearest to x*32767; the result lies in              *)
(* [-32768, 32767].                                                        *)
(***************************************************************************)
BoundaryValues(x, y) ==
    /\ y \in I16_MIN..I16_MAX
    /\ (x.kind = "inf" => y = IF x.m > 0 THEN I16_MAX ELSE I16_MIN)
    /\ (x.kind = "num" =>
          /\ (x.m >= 2^x.e => y = I16_MAX)
          /\ (x.m <= -(2^x.e) => y = I16_MIN)
          /\ (x.m = 0 => y = 0))

InsideRange(x) == x.kind = "num" /\ x.m > -(2^x.e) /\ x.m < 2^x.e

\* | y - x*32767 |, in units of 2^-e
ErrorOf(x, y) == Abs(y * 2^x.e - x.m * I16_MAX)

C16_NearestToExactProduct ==
    encpc = "done" /\ encin.op = "sample" =>
        /\ BoundaryValues(encin.sample, encout.value)
        /\ (InsideRange(encin.sample) =>
                2 * ErrorOf(encin.sample, encout.value) <= 2^encin.sample.e)

(***************************************************************************)
(* C16 as amended: the same boundary values; for every other number x the  *)
(* result is the integer nearest to the single-precision product x*32767,  *)
(* which is within 1/2 + 2^-10 of x*32767 (so rounded, not truncated) but  *)
(* is not always the integer nearest to the exact product; NaN gives 0.    *)
(***************************************************************************)
C16_NearestToSinglePrecisionProduct ==
    encpc = "done" /\ encin.op = "sample" =>
        /\ BoundaryValues(encin.sample, encout.value)
        /\ (encin.sample.kind = "nan" => encout.value = 0)
        /\ (InsideRange(encin.sample) =>
                1024 * ErrorOf(encin.sample, encout.value) <= 513 * 2^encin.sample.e)

C16_Witness ==
    /\ encpc = "done"
    /\ encin.op = "sample"
    /\ InsideRange(encin.sample)
    /\ 2 * ErrorOf(encin.sample, encout.value) > 2^encin.sample.e
    /\ encout.value = 16416

(***************************************************************************)
(* C17: n samples encode to 2n bytes, bytes 2j and 2j+1 being the low and  *)
(* the high byte of the int16 conversion of sample j; the test vector      *)
(* [0.0, 0.5, -0.5, 1.0, -1.0] gives 10 bytes that start with 0, 0 and end *)
(* with 32767 and -32768 in little-endian.                                 *)
(***************************************************************************)
C17_TwoBytesPerSample ==
    encpc = "done" /\ encin.op = "pcm" =>
        LET samples == encin.samples
            bytes == encout.bytes
        IN  /\ Len(bytes) = 2 * Len(samples)
            /\ \A j \in 1..Len(samples) :
                  /\ bytes[2 * j - 1] \in 0..255
                  /\ bytes[2 * j] \in 0..255
                  /\ bytes[2 * j - 1] + 256 * bytes[2 * j]
                        = pcm_i16_from_f32(samples[j]) % 65536
            /\ (samples = TestSamples =>
                  /\ Len(bytes) = 10
                  /\ SubSeq(bytes, 1, 2) = <<0, 0>>
                  /\ SubSeq(bytes, 7, 8) = <<255, 127>>
                  /\ SubSeq(bytes, 9, 10) = <<0, 128>>)

C17_Witness ==
    /\ encpc = "done"
    /\ encin.op = "pcm"
    /\ encin.samples = TestSamples
    /\ Len(encout.bytes) = 10

(***************************************************************************)
(* C18 as claimed: for every sample rate, bits-per-sample and channel      *)
(* count the header is 44 bytes, "RIFF" at 0-3, "WAVE" at 8-11, "fmt " at  *)
(* 12-15, "data" at 36-39, both size fields 0xFFFFFFFF, byte rate          *)
(* sampleRate*channels*bitsPerSample/8 and block align                     *)
(* channels*bitsPerSample/8.                                               *)
(***************************************************************************)
Digit(a, k) == IF k <= Len(a) THEN a[k] ELSE 0

\* Equality of two numbers written as little-endian byte strings.
BigEq(a, b) ==
    \A k \in 1..(IF Len(a) > Len(b) THEN Len(a) ELSE Len(b)) : Digit(a, k) = Digit(b, k)

HeaderLayout(h) ==
    /\ Len(h) = 44
    /\ SubSeq(h, 1, 4) = RIFF
    /\ SubSeq(h, 5, 8) = U32_ALL_ONES
    /\ SubSeq(h, 9, 12) = WAVE
    /\ SubSeq(h, 13, 16) = FMT
    /\ SubSeq(h, 37, 40) = DATA
    /\ SubSeq(h, 41, 44) = U32_ALL_ONES

RateTimesChannels == MulBytes(LeBytes(encin.sample_rate, 4), LeBytes(encin.num_channels, 2))

ByteRateExact ==
    MulBytes(RateTimesChannels, LeBytes(encin.bits_per_sample \div 8, 2))

FieldsFit ==
    /\ \A k \in 5..Len(ByteRateExact) : ByteRateExact[k] = 0
    /\ encin.num_channels * (encin.bits_per_sample \div 8) <= 65535

EngineFailed ==
    /\ hpc = "done"
    /\ engine # <<>>
    /\ engine[Len(engine)].outcome \in {"err", "panic"}

BackendFailureResponse ==
    ErrorResponse(500, "api_error", <<"Backend processing error">>, None)

C19_EngineFailureGenericResponse ==
    /\ hpc # "done" => response = NoResponse
    /\ EngineFailed =>
          /\ response = BackendFailureResponse
          /\ response.kind \notin {"bytes", "stream"}
          /\ \A m \in EngineMessages \cup {JoinErrorText} :
                 m \notin Range(response.message)

C19_Witness ==
    /\ EngineFailed
    /\ unwrap_or(req.stream, FALSE) = FALSE
    /\ engine[1].outcome = "err"
    /\ engine[1].message = "voice file missing"
    /\ response.status = 500

(***************************************************************************)
(* C20: only wav and pcm (in any letter case) are supported response       *)
(* formats: a request naming another format makes no engine call and       *)
(* starts no stream, is answered with a 400 error (the                     *)
(* invalid-response-format error when its model and input are valid),      *)
(* and a response is labelled audio/pcm only when pcm was requested.       *)
(***************************************************************************)
Requested(format) == to_lowercase(req.response_format) = format

WavOrPcmRequested == Requested(<<"w", "a", "v">>) \/ Requested(<<"p", "c", "m">>)

C20_OnlyWavAndPcm ==
    /\ ~WavOrPcmRequested =>
          /\ engine = <<>>
          /\ response.kind \notin {"bytes", "stream"}
          /\ hpc \in {"received", "done"}
    /\ ~WavOrPcmRequested /\ hpc = "done" =>
          /\ response.status = 400
          /\ validate_model(req.model).ok /\ validate_input(req.input, MaxInputChars).ok
                 => response.param = Some("response_format")
    /\ response.content_type = "audio/pcm" => Requested(<<"p", "c", "m">>)

(***************************************************************************)
(* C21 as claimed: in the returned chunks every word that matches the      *)
(* numbered-list-item pattern is the first word of its chunk.              *)
(***************************************************************************)
ItemPositions(chunk) ==
    {k \in 1..WordCount(chunk) : is_numbered_list_item(split_whitespace(chunk)[k])}

C21_NumberedItemFirst ==
    segpc = "done" => \A i \in 1..Len(chunks) : ItemPositions(chunks[i]) \subseteq {1}

(***************************************************************************)
(* C21 as amended: after Pass 1 and Pass 2 every numbered-list item is     *)
(* the first word of its chunk; in the returned chunks it is the first     *)
(* word, or the second word behind the one break word that Pass 3 moved    *)
(* there from the end of the chunk before.                                 *)
(***************************************************************************)
C21_NumberedItemFirstOrAfterCarry ==
    segpc = "done" =>
        LET pass2 == Pass2(Pass1(text, WORDS_PER_CHUNK))
        IN  /\ Len(chunks) = Len(pass2)
            /\ \A i \in 1..Len(chunks) :
                  /\ ItemPositions(pass2[i]) \subseteq {1}
                  /\ \A k \in ItemPositions(chunks[i]) :
                        \/ k = 1
                        \/ /\ k = 2
                           /\ i > 1
                           /\ ItemPositions(pass2[i]) = {1}
                           /\ to_lowercase(split_whitespace(chunks[i])[1]) \in BREAK_WORDS
                           /\ EndsWithBreakWord(split_whitespace(BeforeVisit(pass2, i - 2)[i - 1]))

C21_Witness ==
    /\ segpc = "done"
    /\ Len(chunks) >= 3
    /\ \E i \in 2..Len(chunks) : ItemPositions(chunks[i]) = {2}

(***************************************************************************)
(* C22: in the Pass-1 chunks, a word that ends in ',' and is no numbered   *)
(* item is the last word of its chunk whenever it is the 10th or a later   *)
(* word of the chunk; when it is the 9th or an earlier word, the chunk     *)
(* ends after it only because the text ends there or because the next      *)
(* word is a numbered item, which closes the chunk before itself.          *)
(***************************************************************************)
CommaWords(words) ==
    {k \in 1..Len(words) : ends_with(words[k], ",") /\ ~is_numbered_list_item(words[k])}

RECURSIVE WordsBefore(_, _)
WordsBefore(list, j) ==
    IF j <= 1 THEN 0 ELSE WordCount(list[j - 1]) + WordsBefore(list, j - 1)

C22_CommaClosesFromTenthWord ==
    segpc = "done" =>
        LET pass1 == Pass1(text, WORDS_PER_CHUNK)
            all == split_whitespace(text)
        IN  \A j \in 1..Len(pass1) :
                LET words == split_whitespace(pass1[j])
                    before == WordsBefore(pass1, j)
                IN  \A k \in CommaWords(words) :
                        /\ all[before + k] = words[k]
                        /\ k >= 10 => k = Len(words)
                        /\ k < 10 /\ k = Len(words) =>
                              \/ before + k = Len(all)
                              \/ is_numbered_list_item(all[before + k + 1])

C22_Witness ==
    /\ segpc = "done"
    /\ LET pass1 == Pass1(text, WORDS_PER_CHUNK)
       IN  /\ Len(pass1) = 2
           /\ CommaWords(split_whitespace(pass1[1])) = {9, 10}

(***************************************************************************)
(* C23 as claimed: Pass 2 returns every Pass-1 chunk of fewer than 12      *)
(* words as it is, and a text of fewer than 12 words with no word ending   *)
(* in . ! ? : ; and no numbered item comes back as exactly one chunk, the  *)
(* text with its whitespace normalized.                                    *)
(***************************************************************************)
ShortChunksKept ==
    LET pass1 == Pass1(text, WORDS_PER_CHUNK)
    IN  \A j \in 1..Len(pass1) :
            WordCount(pass1[j]) < SPLIT_THRESHOLD =>
                split_long_chunk_with_depth(pass1[j], SPLIT_THRESHOLD, j - 1 < 2, 0)
                    = <<pass1[j]>>

PlainShortText ==
    LET words == split_whitespace(text)
    IN  /\ Len(words) < SPLIT_THRESHOLD
        /\ \A k \in 1..Len(words) :
               ~EndsUnconditional(words[k]) /\ ~is_numbered_list_item(words[k])

Normalized(str) == join(split_whitespace(str), <<" ">>)

C23_ShortPlainTextOneChunk ==
    segpc = "done" =>
        /\ ShortChunksKept
        /\ PlainShortText => chunks = <<Normalized(text)>>

(***************************************************************************)
(* C23 as amended: the same, for a text that has at least one word and     *)
(* whose 10th word, when an 11th follows it, does not end in ','; a comma  *)
(* on the 10th word closes the Pass-1 chunk and the 11th word becomes a    *)
(* second chunk, and a blank text has no chunk at all.                     *)
(***************************************************************************)
C23_ShortPlainTextOneChunkUnlessTenthComma ==
    segpc = "done" =>
        /\ ShortChunksKept
        /\ LET words == split_whitespace(text)
           IN  /\ PlainShortText
               /\ words # <<>>
               /\ ~(Len(words) = WORDS_PER_CHUNK + 1 /\ ends_with(words[WORDS_PER_CHUNK], ","))
               => chunks = <<Normalized(text)>>

C23_Witness ==
    /\ segpc = "done"
    /\ PlainShortText
    /\ WordCount(text) = SPLIT_THRESHOLD - 1
    /\ \E k \in 4..8 : to_lowercase(split_whitespace(text)[k]) \in BREAK_WORDS
    /\ chunks = <<Normalized(text)>>

(***************************************************************************)
(* C24: Pass 2 ends on every Pass-1 chunk with at least one piece and at   *)
(* most 8; a call at depth 3 returns its chunk as it is, whatever its      *)
(* length, so no call is made at a depth above 3.                          *)
(***************************************************************************)
C24_DepthCapEightPieces ==
    segpc = "done" =>
        LET pass1 == Pass1(text, WORDS_PER_CHUNK)
        IN  \A j \in 1..Len(pass1) :
                LET pieces == split_long_chunk_with_depth(pass1[j], SPLIT_THRESHOLD,
                                                          j - 1 < 2, 0)
                IN  /\ Len(pieces) \in 1..8
                    /\ split_long_chunk_with_depth(pass1[j], SPLIT_THRESHOLD, j - 1 < 2,
                                                   MAX_SPLIT_DEPTH) = <<pass1[j]>>
                    /\ Len(pieces) = 8 =>
                          \A k \in 1..8 :
                              split_long_chunk_with_depth(pieces[k], SPLIT_THRESHOLD, j - 1 < 2,
                                                          MAX_SPLIT_DEPTH) = <<pieces[k]>>

C24_Witness ==
    /\ segpc = "done"
    /\ LET pass1 == Pass1(text, WORDS_PER_CHUNK)
       IN  /\ Len(pass1) = 1
           /\ LET pieces == split_long_chunk_with_depth(pass1[1], SPLIT_THRESHOLD, TRUE, 0)
              IN  /\ Len(pieces) = 8
                  /\ \E k \in 1..8 :
                         /\ WordCount(pieces[k]) >= SPLIT_THRESHOLD
                         /\ ~Unsplittable(pieces[k], TRUE)

(***************************************************************************)
(* C25: inside the first two Pass-1 chunks every boundary Pass 2 makes     *)
(* stands right after a comma-ending word or right before a break word,    *)
(* and a chunk of 12 words or more whose comma closest to the midpoint     *)
(* qualifies is cut right after that comma; inside every later Pass-1      *)
(* chunk every boundary Pass 2 makes stands right before a break word.     *)
(***************************************************************************)
FirstWord(chunk) == split_whitespace(chunk)[1]

LastWord(chunk) == split_whitespace(chunk)[WordCount(chunk)]

C25_CommaSplitsInFirstTwoOnly ==
    segpc = "done" =>
        LET pass1 == Pass1(text, WORDS_PER_CHUNK)
            pass2 == Pass2(pass1)
            ends == {WordsBefore(pass1, j + 1) : j \in 1..Len(pass1)}
            offset == [m \in 1..Len(pass2) |-> WordsBefore(pass2, m)]
        IN  /\ \A m \in 2..Len(pass2) :
                  offset[m] \notin ends =>
                      \/ to_lowercase(FirstWord(pass2[m])) \in BREAK_WORDS
                      \/ /\ Cardinality({e \in ends : e < offset[m]}) < 2
                         /\ ends_with(LastWord(pass2[m - 1]), ",")
            /\ \A j \in 1..Len(pass1) :
                  LET words == split_whitespace(pass1[j])
                      comma_pos == find_closest_punctuation(words, Len(words) \div 2, {","})
                  IN  /\ j - 1 < 2
                      /\ Len(words) >= SPLIT_THRESHOLD
                      /\ QualifyingSplit(comma_pos, words)
                      => \E m \in 2..Len(pass2) :
                             /\ offset[m] = WordsBefore(pass1, j) + comma_pos[1]
                             /\ ends_with(LastWord(pass2[m - 1]), ",")

C25_Witness ==
    /\ segpc = "done"
    /\ LET pass1 == Pass1(text, WORDS_PER_CHUNK)
       IN  /\ Len(pass1) = 3
           /\ LET words == split_whitespace(pass1[3])
                  pieces == SubSeq(Pass2(pass1), 3, Len(Pass2(pass1)))
              IN  /\ QualifyingSplit(find_closest_punctuation(words, Len(words) \div 2, {","}),
                                     words)
                  /\ Len(pieces) = 2
                  /\ ~ends_with(LastWord(pieces[1]), ",")

(***************************************************************************)
(* C26 as claimed: a chunk of 12 words or more that Pass 2 emits unsplit   *)
(* at depth 0 or 1 has no break word at word index 3 or later and, inside  *)
(* the first two Pass-1 chunks, no comma-ending word with at least 3       *)
(* words up to it and at least one word after it.                          *)
(***************************************************************************)
NoSplitPointAnywhere(chunk, use_punctuation) ==
    LET words == split_whitespace(chunk)
    IN  /\ \A i \in 0..(Len(words) - 1) :
               to_lowercase(words[i + 1]) \in BREAK_WORDS => i < MIN_SPLIT_POS
        /\ use_punctuation =>
               \A i \in 0..(Len(words) - 1) :
                   ends_with(words[i + 1], ",") =>
                       ~(i + 1 >= MIN_SPLIT_POS /\ i + 1 < Len(words))

\* The chunks Pass 2 emitted unsplit at depth 0 (an uncut Pass-1 chunk) or
\* at depth 1 (the two parts of a Pass-1 chunk cut once), with the flag
\* use_punctuation of their Pass-1 chunk.
EmittedUnsplit ==
    LET pass1 == Pass1(text, WORDS_PER_CHUNK)
    IN  UNION {LET pieces == split_long_chunk_with_depth(pass1[j], SPLIT_THRESHOLD,
                                                         j - 1 < 2, 0)
               IN  IF Len(pieces) <= 2
                   THEN {<<pieces[k], j - 1 < 2>> : k \in 1..Len(pieces)}
                   ELSE {} : j \in 1..Len(pass1)}

HeldByOthers(s) ==
    Cardinality({o \in Streams \ {s} : ppc[o] = "engine"})
        + Cardinality({r \in Requests : rpc[r] = "engine"})

C27_NoPermitWhileSuspended ==
    \A s \in Streams :
        /\ TasksOf(s) # {} <=> ppc[s] = "engine"
        /\ ppc[s] \in EnqueuePositions => permits = workers - HeldByOthers(s)

C27_Witness ==
    \E s \in Streams, r \in Requests :
        /\ ppc[s] = "send"
        /\ cons[s] = "open"
        /\ Len(chan[s]) = STREAM_CHANNEL_CAPACITY
        /\ workers = 1
        /\ rpc[r] = "engine"
        /\ permits = 0

(***************************************************************************)
(* C28: once a stream's consumer has gone away its producer starts at      *)
(* most one more engine call, and none when the framing is WAV and the     *)
(* header was never enqueued; the channel accepts no frame after the       *)
(* consumer has gone.                                                      *)
(***************************************************************************)
C28_AtMostOneCallAfterGone ==
    /\ [](\A s \in Streams :
            /\ gonecalls[s] <= 1
            /\ framing[s] = "wav" /\ cons[s] = "gone" /\ accepted[s] = <<>> =>
                   calls[s] = <<>> /\ gonecalls[s] = 0 /\ TasksOf(s) = {})
    /\ [][\A s \in Streams :
              /\ cons[s] = "gone" => accepted'[s] = accepted[s] /\ chan'[s] = <<>>
              /\ gonecalls[s] = 1 => calls'[s] = calls[s]]_vars

C28_Witness ==
    \E s \in Streams :
        /\ framing[s] = "wav"
        /\ nchunks[s] >= 2
        /\ cons[s] = "gone"
        /\ accepted[s] = <<>>
        /\ ppc[s] = "done"
        /\ calls[s] = <<>>

(***************************************************************************)
(* C29: the worker limit is between 1 and 8, and the permits available     *)
(* plus the permits held by the synthesize calls in progress equal it;     *)
(* however a call ends (samples, engine error, panic of the engine task)   *)
(* its permit is back, so with no call in progress, or no engine call      *)
(* running, every permit is available.                                     *)
(***************************************************************************)
InSynthesize ==
    Cardinality({s \in Streams : ppc[s] = "engine"})
        + Cardinality({r \in Requests : rpc[r] = "engine"})

C29_PermitsConserved ==
    /\ workers \in 1..MAX_WORKERS
    /\ permits \in 0..workers
    /\ permits + InSynthesize = workers
    /\ running = {} => permits = workers
    /\ \A r \in Requests : rpc[r] = "done" => RequestTask(r) \notin running

C29_Witness ==
    /\ workers = 2
    /\ permits = workers
    /\ \E s \in Streams : failed[s] # None /\ ppc[s] = "done" /\ Len(calls[s]) >= 2
    /\ \E r \in Requests : rpc[r] = "done" /\ resp[r] = "backend_error"

\* C30: for every list of per-chunk sample sequences, the PCM frames that
\* samples_to_pcm_bytes produces for the chunks, concatenated in order, are
\* the bytes that encode_pcm produces for the concatenation of the chunks'
\* samples.
C30_StreamedFramesEqualWholeEncoding ==
    (encpc = "done" /\ encin.op = "chunks") =>
        concat(encout.frames) = encout.bytes

C30_Witness ==
    /\ encpc = "done"
    /\ encin.op = "chunks"
    /\ Len(encin.samples) = 2
    /\ encin.samples[1].samples = <<Num(513, 10), NaN>>
    /\ encin.samples[2].samples = <<Num(513, 10)>>
    /\ Len(encout.bytes) = 6
    /\ encout.bytes[3] = 0
    /\ encout.bytes[5] # encout.bytes[6]

====
